---------------------------- MODULE Spec2Model ----------------------------
(***************************************************************************)
(* The notebook synchronization engine of the edu storage service:        *)
(* one NotebookBinding (debounced writes, save protocol with optimistic   *)
(* concurrency, conflict merge, offline queue, restore), the in-memory    *)
(* remote store and the local cache.                                      *)
(*                                                                         *)
(* Every `await` of the TypeScript code is a point where other handlers   *)
(* may run.  A call to the cache or to the remote store takes effect at   *)
(* the call (as InMemoryNotebookCache and InMemoryFirestoreClient do);    *)
(* the code after the await runs in a later step.                         *)
(***************************************************************************)
EXTENDS Integers, Sequences, FiniteSets, TLC

(***************************************************************************)
(* Bounds of the model.                                                    *)
(***************************************************************************)
\* one-writer workload: ensurePersist calls, local mutations
OverlapCalls == 3
OverlapEdits == 1

\* restart workload: ensurePersist calls, local mutations, re-registrations
RestartCalls == 2
RestartEdits == 1
MaxReopen == 1

\* two-writer workload: ensurePersist calls, local mutations, external writes
ConflictCalls == 2
ConflictEdits == 2
MaxExternal == 1

\* debounce workload: debounce timeouts, local mutations, external writes
DebounceFires == 2
DebounceEdits == 2
DebounceExternal == 1

CellIds == <<"A", "B">>
MsgId == "m1"
QuestionId == "q1"

\* content written by the external writer (local mutations write small numbers)
ExternalContent == 100

VARIABLES
    now,            \* the clock () => number
    doc,            \* PersistableNotebookModel.cells: <<[id, content]>>
    transcripts,    \* NotebookBinding.transcripts
    mcqAnswers,     \* NotebookBinding.mcqAnswers: question id -> answer
    version,        \* NotebookBinding.version
    lastSnapshot,   \* NotebookBinding.lastSnapshot
    pendingPersist, \* NotebookBinding.pendingPersist: 0 or the index of a request
    reqs,           \* the ensurePersist() calls made so far, each with its persistInternal run
    timer,          \* Delayer: a debounce timeout is armed
    throttler,      \* Throttler: [active: request index or 0, queued: BOOLEAN]
    rst,            \* the performRestore() run of the binding
    remote,         \* InMemoryFirestoreClient.notebooks[user::notebook]
    remoteSession,  \* InMemoryFirestoreClient.sessions[user]
    cache,          \* InMemoryNotebookCache.notebooks[user::notebook]
    cacheSession,   \* InMemoryNotebookCache.sessions[user]
    pending,        \* InMemoryNotebookCache.pending[user::notebook]
    budget,         \* what is left of the bounds: [calls, edits, external, reopen]
    synced,         \* history: cells of the last snapshot of this binding the remote accepted
    superseded,     \* history: pending entries queued before some later accepted save
    disposed,       \* NotebookBinding.dispose() has run
    registry,       \* EduStorageService.bindings: URI -> binding
    lastCall,       \* the last call made from outside: [op, uri, arg, result, seq]
    constructed,    \* how many NotebookBinding objects the service has constructed
    notebooks,      \* a cache object's notebooks map: key -> stored snapshot
    storage,        \* BrowserNotebookCache.storage: [present, items: key -> JSON text]
    auth,           \* AuthManager._state, its position, and the auth service behind it
    pendingMap,     \* InMemoryNotebookCache.pending of a cache shared by several bindings
    remoteMap,      \* InMemoryFirestoreClient.notebooks: key -> snapshot, several documents
    peers,          \* the NotebookBinding objects over the shared cache and store
    effects         \* history: the cache, queue and store operations each binding performed

bindingVars ==
    <<now, doc, transcripts, mcqAnswers, version, lastSnapshot,
      pendingPersist, reqs, timer, throttler, rst, remote, remoteSession,
      cache, cacheSession, pending, budget, synced, superseded>>

serviceVars ==
    <<disposed, registry, lastCall, constructed>>

sharedVars ==
    <<pendingMap, remoteMap, peers, effects>>

objectVars ==
    <<notebooks, storage, auth, sharedVars>>

vars ==
    <<now, doc, transcripts, mcqAnswers, version, lastSnapshot,
      pendingPersist, reqs, timer, throttler, rst, remote, remoteSession,
      cache, cacheSession, pending, budget, synced, superseded,
      disposed, registry, lastCall, constructed, notebooks, storage, auth,
      pendingMap, remoteMap, peers, effects>>

(***************************************************************************)
(* Snapshot model.                                                         *)
(***************************************************************************)
NoAnswer ==
    [q \in {} |-> [questionId |-> q, selected |-> -1, updatedAt |-> -1]]

\* Map.set(key, value) on a map kept as a function on its keys
MapPut(map, key, value) ==
    [k \in DOMAIN map \cup {key} |-> IF k = key THEN value ELSE map[k]]

\* no Session State record, and the record persistSession writes at time clock
NoSession ==
    [notebookId |-> "none", sessionId |-> "none", lastOpened |-> -1]

\* a Session State record that does not name the document
SessionState_NoDocument(clock) ==
    [notebookId |-> "none", sessionId |-> "session", lastOpened |-> clock]

SessionState(clock) ==
    [notebookId |-> "notebook", sessionId |-> "session", lastOpened |-> clock]

\* no binding registered, no call made yet
NoBindings ==
    [u \in {} |-> u]

\* a cache object just constructed over an empty Storage
NoEntries ==
    [k \in {} |-> k]

\* storage: undefined, or a Storage and its items
NoStorage ==
    [present |-> FALSE, items |-> NoEntries]

\* null, for a user, a token or an error
Null == "null"

\* AuthManager._state at construction, no call running; the service has no user and
\* no listener
NewAuthManager ==
    [user |-> Null, token |-> Null, loading |-> TRUE, error |-> Null,
     pc |-> "idle", initialized |-> FALSE, serviceUser |-> Null, serviceToken |-> Null]

\* no binding over a shared cache has been constructed
NoPeers ==
    /\ pendingMap = <<>>
    /\ remoteMap = NoEntries
    /\ peers = NoEntries
    /\ effects = {}

EmptyCacheStore ==
    /\ notebooks = NoEntries
    /\ storage = NoStorage
    /\ auth = NewAuthManager
    /\ NoPeers

NoCall ==
    [op |-> "none", uri |-> "none", arg |-> "none", result |-> "none", seq |-> 0]

NoSnap ==
    [cells |-> <<>>, transcripts |-> <<>>, mcqAnswers |-> NoAnswer,
     version |-> -1, updatedAt |-> -1, pending |-> FALSE]

Exists(s) ==
    s.version >= 0

Max(a, b) ==
    IF a >= b THEN a ELSE b

InitialDoc ==
    [i \in 1..Len(CellIds) |-> [id |-> CellIds[i], content |-> 0]]

\* positions of the cells of `cells` that carry `id`
Positions(cells, id) ==
    {i \in 1..Len(cells) : cells[i].id = id}

HasId(cells, id) ==
    Positions(cells, id) # {}

\* new Map(cells.map(c => [c.id, c])).get(id): the last cell with that id
MapGet(cells, id) ==
    cells[CHOOSE i \in Positions(cells, id) : \A j \in Positions(cells, id) : j <= i]

\* the content a snapshot (or the document) holds for a cell id, -1 if none
ContentOf(cells, id) ==
    IF HasId(cells, id) THEN MapGet(cells, id).content ELSE -1

(***************************************************************************)
(* Merge algorithm.                                                        *)
(***************************************************************************)
\* a cell merge that takes the remote cells whatever their lastModified
MergeCells_RemoteWins(local, rem) ==
    rem

MergeCells_Unfiltered(local, rem) ==
    LET chosen(cell) ==
            IF ~HasId(rem, cell.id) \/ cell.lastModified >= MapGet(rem, cell.id).lastModified
            THEN cell
            ELSE MapGet(rem, cell.id)
    IN  [i \in 1..Len(local) |-> chosen(local[i])] \o rem

MergeCells_LocalWins(local, rem) ==
    local \o SelectSeq(rem, LAMBDA c : ~HasId(local, c.id))

MergeCells(local, rem) ==
    LET chosen(cell) ==
            IF ~HasId(rem, cell.id) \/ cell.lastModified >= MapGet(rem, cell.id).lastModified
            THEN cell
            ELSE MapGet(rem, cell.id)
        first == [i \in 1..Len(local) |-> chosen(local[i])]
        seen == {first[i].id : i \in 1..Len(first)}
    IN  first \o SelectSeq(rem, LAMBDA c : c.id \notin seen)

\* Map.set: replaces the value of an existing key in place, else appends
MapSet(seq, msg) ==
    IF \E i \in 1..Len(seq) : seq[i].id = msg.id
    THEN [i \in 1..Len(seq) |-> IF seq[i].id = msg.id THEN msg ELSE seq[i]]
    ELSE Append(seq, msg)

RECURSIVE SetAll(_, _)
SetAll(map, msgs) ==
    IF msgs = <<>> THEN map ELSE SetAll(MapSet(map, Head(msgs)), Tail(msgs))

RECURSIVE SetNewer(_, _)
SetNewer(map, msgs) ==
    IF msgs = <<>> THEN map
    ELSE LET msg == Head(msgs)
             has == \E i \in 1..Len(map) : map[i].id = msg.id
             existing == map[CHOOSE i \in 1..Len(map) : map[i].id = msg.id]
         IN  IF ~has \/ existing.timestamp <= msg.timestamp
             THEN SetNewer(MapSet(map, msg), Tail(msgs))
             ELSE SetNewer(map, Tail(msgs))

\* insertion of msg after every element whose timestamp is <= its own (stable)
RECURSIVE InsertByTimestamp(_, _)
InsertByTimestamp(sorted, msg) ==
    IF sorted = <<>> THEN <<msg>>
    ELSE IF Head(sorted).timestamp <= msg.timestamp
         THEN <<Head(sorted)>> \o InsertByTimestamp(Tail(sorted), msg)
         ELSE <<msg>> \o sorted

\* Array.prototype.sort((a, b) => a.timestamp - b.timestamp), a stable sort
RECURSIVE SortByTimestamp(_)
SortByTimestamp(seq) ==
    IF seq = <<>> THEN <<>>
    ELSE InsertByTimestamp(SortByTimestamp(SubSeq(seq, 1, Len(seq) - 1)), seq[Len(seq)])

mergeTranscriptArrays_RemoteOnTie(local, rem) ==
    SortByTimestamp(SetNewer(SetAll(<<>>, local), rem))

mergeTranscriptArrays(local, rem) ==
    SortByTimestamp(SetNewer(SetAll(<<>>, rem), local))

mergeMcqAnswers_RemoteOnTie(local, rem) ==
    [q \in DOMAIN local \cup DOMAIN rem |->
        IF q \notin DOMAIN local THEN rem[q]
        ELSE IF q \notin DOMAIN rem \/ rem[q].updatedAt < local[q].updatedAt THEN local[q]
        ELSE rem[q]]

mergeMcqAnswers(local, rem) ==
    [q \in DOMAIN local \cup DOMAIN rem |->
        IF q \notin DOMAIN local THEN rem[q]
        ELSE IF q \notin DOMAIN rem \/ rem[q].updatedAt <= local[q].updatedAt THEN local[q]
        ELSE rem[q]]

mergeSnapshots(local, rem, clock) ==
    [cells |-> MergeCells(local.cells, rem.cells),
     transcripts |-> mergeTranscriptArrays(local.transcripts, rem.transcripts),
     mcqAnswers |-> mergeMcqAnswers(local.mcqAnswers, rem.mcqAnswers),
     version |-> Max(local.version, rem.version) + 1,
     updatedAt |-> clock,
     pending |-> FALSE]


(***************************************************************************)
(* Remote store and local cache.                                           *)
(***************************************************************************)
\* InMemoryFirestoreClient.saveNotebook: the outcome of a save when the store is reached;
\* conditional is FALSE when no expectedVersion is passed
SaveResult(conditional, expectedVersion) ==
    IF Exists(remote) /\ conditional /\ remote.version # expectedVersion
    THEN "conflict"
    ELSE "ok"

\* the outcomes of one saveNotebook call: the store may be unreachable (OfflineError)
SaveResults(conditional, expectedVersion) ==
    {"offline", SaveResult(conditional, expectedVersion)}

\* the outcomes of one getNotebook or saveSession call
CallResults ==
    {"offline", "ok"}

\* InMemoryNotebookCache.storePendingSnapshot
storePendingSnapshot(queue, snapshot) ==
    Append(queue, snapshot)

\* entries of the pending queue, as a set
Entries(queue) ==
    {queue[i] : i \in 1..Len(queue)}

(***************************************************************************)
(* NotebookBinding: snapshots of the live document.                        *)
(***************************************************************************)
serializeCell(cell, timestamp) ==
    [id |-> cell.id, content |-> cell.content, lastModified |-> timestamp]

\* captureSnapshot(), `clock` being the value this.clock() returns
captureSnapshot(clock) ==
    [cells |-> [i \in 1..Len(doc) |-> serializeCell(doc[i], clock)],
     transcripts |-> transcripts,
     mcqAnswers |-> mcqAnswers,
     version |-> version + 1,
     updatedAt |-> clock,
     pending |-> FALSE]

toCellDto(cell) ==
    [id |-> cell.id, content |-> cell.content]

chooseSnapshot_PreferRemote(rem, cached) ==
    IF Exists(rem) THEN rem ELSE cached

chooseSnapshot(rem, cached) ==
    IF Exists(rem) /\ Exists(cached)
    THEN IF rem.updatedAt >= cached.updatedAt THEN rem ELSE cached
    ELSE IF Exists(rem) THEN rem ELSE cached

(***************************************************************************)
(* One ensurePersist() call and the persistInternal() run it stands for.   *)
(***************************************************************************)
NewRequest(origin, prev) ==
    [pc |-> "waiting", origin |-> origin, prev |-> prev, snap |-> NoSnap,
     expected |-> -1, res |-> "none", fetched |-> NoSnap, merged |-> NoSnap,
     saves |-> 0, conflict |-> FALSE, clean |-> TRUE, outcome |-> "none"]

\* a settled request: only the way its promise settled is kept
Done(outcome) ==
    [NewRequest("none", 0) EXCEPT !.pc = "done", !.outcome = outcome]

Settled(w) ==
    reqs[w].pc = "done"

InFlight(w) ==
    reqs[w].pc \notin {"waiting", "done"}

\* the synchronous head of persistInternal: captureSnapshot, lastSnapshot = snapshot,
\* cache.writeNotebook(snapshot)
persistInternal(req) ==
    [req EXCEPT !.pc = "awaitCache", !.snap = captureSnapshot(now), !.clean = TRUE]

\* ensurePersist(): start persistInternal now, or chain it on the promise in pendingPersist
ensurePersist(origin) ==
    /\ IF pendingPersist = 0
       THEN /\ reqs' = Append(reqs, persistInternal(NewRequest(origin, 0)))
            /\ lastSnapshot' = captureSnapshot(now)
            /\ cache' = captureSnapshot(now)
            /\ now' = now + 1
       ELSE /\ reqs' = Append(reqs, NewRequest(origin, pendingPersist))
            /\ UNCHANGED <<lastSnapshot, cache, now>>
    /\ pendingPersist' = Len(reqs) + 1

(***************************************************************************)
(* NotebookBinding.performRestore: its state.                              *)
(***************************************************************************)
\* InMemoryNotebookCache.consumePendingSnapshots: drain and clear
consumePendingSnapshots(queue) ==
    [result |-> queue, left |-> <<>>]

\* the restore run of a binding just constructed (consumePendingSnapshots is called at once)
NewRestore(queue) ==
    [pc |-> "awaitConsume", drained |-> consumePendingSnapshots(queue).result, idx |-> 0,
     cached |-> NoSnap, seen |-> NoSnap, res |-> "none", accepted |-> {},
     source |-> "none", appliedRemote |-> FALSE]

\* the restore run of a binding over an empty cache and an empty remote store, settled:
\* the state after `await binding.restoreComplete`
SettledRestore ==
    [NewRestore(<<>>) EXCEPT !.pc = "done", !.source = "empty"]

InitBinding(calls, edits, external, reopen, restore) ==
    /\ now = 1
    /\ doc = InitialDoc
    /\ transcripts = <<>>
    /\ mcqAnswers = NoAnswer
    /\ version = 0
    /\ lastSnapshot = NoSnap
    /\ pendingPersist = 0
    /\ reqs = <<>>
    /\ timer = FALSE
    /\ throttler = [active |-> 0, queued |-> FALSE]
    /\ rst = restore
    /\ remote = NoSnap
    /\ remoteSession = NoSession
    /\ cache = NoSnap
    /\ cacheSession = NoSession
    /\ pending = <<>>
    /\ budget = [calls |-> calls, edits |-> edits, external |-> external,
                 reopen |-> reopen]
    /\ synced = <<>>
    /\ superseded = {}
    /\ disposed = FALSE
    /\ registry = NoBindings
    /\ lastCall = NoCall
    /\ constructed = 0

InitBudget(calls, edits, external, reopen, restore) ==
    /\ InitBinding(calls, edits, external, reopen, restore)
    /\ EmptyCacheStore

(***************************************************************************)
(* Environment: another writer.                                            *)
(***************************************************************************)
\* another client saves the notebook with one cell changed (no expectedVersion)
ExternalWrite ==
    /\ budget.external > 0
    /\ Exists(remote)
    /\ \E i \in 1..Len(remote.cells) :
          remote' = [remote EXCEPT
                        !.cells[i] = [id |-> remote.cells[i].id, content |-> ExternalContent,
                                      lastModified |-> now],
                        !.version = @ + 1,
                        !.updatedAt = now]
    /\ now' = now + 1
    /\ budget' = [budget EXCEPT !.external = @ - 1]
    /\ reqs' = [w \in 1..Len(reqs) |-> [reqs[w] EXCEPT !.clean = FALSE]]
    /\ UNCHANGED <<doc, transcripts, mcqAnswers, version, lastSnapshot,
                   pendingPersist, timer, throttler, rst, remoteSession,
                   cache, cacheSession, pending, synced, superseded>>
    /\ UNCHANGED <<serviceVars, objectVars>>

(***************************************************************************)
(* NotebookBinding: public operations and the scheduler.                   *)
(***************************************************************************)
\* the value the next local mutation writes (each mutation writes its own)
NextValue ==
    budget.edits

\* a queuePersist that does not arm the debounce timeout
queuePersist_NotArmed ==
    timer' = timer

\* Delayer.trigger: (re)arm the debounce timeout
queuePersist ==
    timer' = TRUE

\* a later change of the document: the runs in flight no longer hold the latest state
Stale(requests) ==
    [w \in 1..Len(requests) |-> [requests[w] EXCEPT !.clean = FALSE]]

\* a qualifying edit of one cell, then handleModelChange
EditCell ==
    /\ budget.edits > 0
    /\ \E i \in 1..Len(doc) : doc' = [doc EXCEPT ![i].content = NextValue]
    /\ queuePersist
    /\ budget' = [budget EXCEPT !.edits = @ - 1]
    /\ reqs' = Stale(reqs)
    /\ UNCHANGED <<now, transcripts, mcqAnswers, version, lastSnapshot,
                   pendingPersist, throttler, rst, remote, remoteSession,
                   cache, cacheSession, pending, synced, superseded>>
    /\ UNCHANGED <<serviceVars, objectVars>>

\* filter(m => m.id !== message.id), push, sort by timestamp
WithMessage_KeepsAll(list, message) ==
    SortByTimestamp(Append(list, message))

WithMessage(list, message) ==
    SortByTimestamp(Append(SelectSeq(list, LAMBDA m : m.id # message.id), message))

appendTranscript(message) ==
    /\ transcripts' = WithMessage(transcripts, message)
    /\ queuePersist

AppendTranscript ==
    /\ budget.edits > 0
    /\ appendTranscript([id |-> MsgId, text |-> NextValue, timestamp |-> now])
    /\ budget' = [budget EXCEPT !.edits = @ - 1]
    /\ reqs' = Stale(reqs)
    /\ UNCHANGED <<now, doc, mcqAnswers, version, lastSnapshot,
                   pendingPersist, throttler, rst, remote, remoteSession,
                   cache, cacheSession, pending, synced, superseded>>
    /\ UNCHANGED <<serviceVars, objectVars>>

\* !existing || existing.updatedAt <= answer.updatedAt
AcceptsAnswer_Always(map, answer) ==
    TRUE

AcceptsAnswer(map, answer) ==
    \/ answer.questionId \notin DOMAIN map
    \/ map[answer.questionId].updatedAt <= answer.updatedAt

updateMCQAnswer(answer) ==
    IF AcceptsAnswer(mcqAnswers, answer)
    THEN mcqAnswers' = MapPut(mcqAnswers, answer.questionId, answer) /\ queuePersist
    ELSE UNCHANGED <<mcqAnswers, timer>>

UpdateMCQAnswer ==
    /\ budget.edits > 0
    /\ updateMCQAnswer([questionId |-> QuestionId, selected |-> NextValue,
                        updatedAt |-> now])
    /\ budget' = [budget EXCEPT !.edits = @ - 1]
    /\ reqs' = Stale(reqs)
    /\ UNCHANGED <<now, doc, transcripts, version, lastSnapshot,
                   pendingPersist, throttler, rst, remote, remoteSession,
                   cache, cacheSession, pending, synced, superseded>>
    /\ UNCHANGED <<serviceVars, objectVars>>

\* flush(): delayer.cancel(), then ensurePersist()
Flush ==
    /\ budget.calls > 0
    /\ timer' = FALSE
    /\ ensurePersist("flush")
    /\ budget' = [budget EXCEPT !.calls = @ - 1]
    /\ UNCHANGED <<doc, transcripts, mcqAnswers, version,
                   throttler, rst, remote, remoteSession,
                   cacheSession, pending, synced, superseded>>
    /\ UNCHANGED <<serviceVars, objectVars>>

\* the debounce timeout fires: Throttler.queue(() => ensurePersist())
TimerFire ==
    /\ timer
    /\ timer' = FALSE
    /\ budget.calls > 0
    /\ budget' = [budget EXCEPT !.calls = @ - 1]
    /\ IF throttler.active # 0
       THEN /\ throttler' = [throttler EXCEPT !.queued = TRUE]
            /\ UNCHANGED <<reqs, pendingPersist, lastSnapshot, cache, now>>
       ELSE /\ ensurePersist("timer")
            /\ throttler' = [throttler EXCEPT !.active = Len(reqs) + 1]
    /\ UNCHANGED <<doc, transcripts, mcqAnswers, version,
                   rst, remote, remoteSession,
                   cacheSession, pending, synced, superseded>>
    /\ UNCHANGED <<serviceVars, objectVars>>

\* the Throttler's reaction to its active promise settling
ThrottlerComplete ==
    /\ throttler.active # 0
    /\ Settled(throttler.active)
    /\ IF throttler.queued /\ ~disposed
       THEN /\ ensurePersist("timer")
            /\ throttler' = [active |-> Len(reqs) + 1, queued |-> FALSE]
       ELSE /\ throttler' = [active |-> 0, queued |-> FALSE]
            /\ UNCHANGED <<reqs, pendingPersist, lastSnapshot, cache, now>>
    /\ UNCHANGED <<doc, transcripts, mcqAnswers, version,
                   timer, rst, remote, remoteSession,
                   cacheSession, pending, budget, synced, superseded>>
    /\ UNCHANGED <<serviceVars, objectVars>>

(***************************************************************************)
(* NotebookBinding.persistInternal and handleConflict, await by await.    *)
(***************************************************************************)
\* InMemoryFirestoreClient.deletePendingSnapshot: a no-op
deletePendingSnapshot(queue) ==
    queue

\* the remote store accepts a snapshot of this binding
AcceptedSave(snapshot) ==
    /\ remote' = snapshot
    /\ synced' = snapshot.cells
    /\ superseded' = superseded \cup Entries(pending)
                        \cup (IF rst.pc # "done" THEN Entries(rst.drained) ELSE {})

\* after `await cache.writeNotebook(snapshot)`: saveNotebook(snapshot, {expectedVersion: this.version})
SaveCall(w) ==
    /\ reqs[w].pc = "awaitCache"
    /\ \E r \in SaveResults(TRUE, version) :
           /\ reqs' = [reqs EXCEPT ![w].pc = "awaitSave", ![w].expected = version,
                                   ![w].res = r, ![w].saves = @ + 1,
                                   ![w].clean = @ /\ r # "offline"]
           /\ IF r = "ok"
              THEN AcceptedSave(reqs[w].snap)
              ELSE UNCHANGED <<remote, synced, superseded>>
    /\ UNCHANGED <<now, doc, transcripts, mcqAnswers, version, lastSnapshot,
                   pendingPersist, timer, throttler, rst, remoteSession,
                   cache, cacheSession, pending, budget>>
    /\ UNCHANGED <<serviceVars, objectVars>>

\* the code after `await saveNotebook(...)`: success, ConflictError or OfflineError
SaveDone(w) ==
    /\ reqs[w].pc = "awaitSave"
    /\ CASE reqs[w].res = "ok" ->
              /\ version' = reqs[w].snap.version
              /\ lastSnapshot' = reqs[w].snap
              /\ cache' = reqs[w].snap
              /\ pending' = deletePendingSnapshot(pending)
              /\ reqs' = [reqs EXCEPT ![w].pc = "awaitPost"]
         [] reqs[w].res = "conflict" ->
              \* handleConflict: getNotebook
              /\ \E r \in CallResults :
                    reqs' = [reqs EXCEPT ![w].pc = "awaitFetch", ![w].res = r,
                                         ![w].conflict = TRUE,
                                         ![w].fetched = IF r = "ok" THEN remote ELSE NoSnap,
                                         ![w].clean = @ /\ r # "offline"]
              /\ UNCHANGED <<version, lastSnapshot, cache, pending>>
         [] reqs[w].res = "offline" ->
              /\ pending' = storePendingSnapshot(pending, [reqs[w].snap EXCEPT !.pending = TRUE])
              /\ reqs' = [reqs EXCEPT ![w].pc = "awaitPost"]
              /\ UNCHANGED <<version, lastSnapshot, cache>>
    /\ UNCHANGED <<now, doc, transcripts, mcqAnswers,
                   pendingPersist, timer, throttler, rst, remote, remoteSession,
                   cacheSession, budget, synced, superseded>>
    /\ UNCHANGED <<serviceVars, objectVars>>

\* handleConflict after `await getNotebook(...)`
FetchDone(w) ==
    /\ reqs[w].pc = "awaitFetch"
    /\ CASE reqs[w].res = "offline" ->
              \* the OfflineError of getNotebook is not caught
              /\ reqs' = [reqs EXCEPT ![w] = Done("OfflineError")]
              /\ pendingPersist' = 0
              /\ UNCHANGED <<now, version, lastSnapshot, cache, remote, synced, superseded>>
         [] reqs[w].res = "ok" /\ ~Exists(reqs[w].fetched) ->
              \* remote vanished: saveNotebook(localSnapshot), no expectedVersion
              /\ version' = reqs[w].snap.version
              /\ \E r \in SaveResults(FALSE, 0) :
                     /\ reqs' = [reqs EXCEPT ![w].pc = "awaitRetry", ![w].res = r,
                                             ![w].saves = @ + 1,
                                             ![w].clean = @ /\ r # "offline"]
                     /\ IF r = "ok"
                        THEN AcceptedSave(reqs[w].snap)
                        ELSE UNCHANGED <<remote, synced, superseded>>
              /\ UNCHANGED <<now, lastSnapshot, cache, pendingPersist>>
         [] reqs[w].res = "ok" /\ Exists(reqs[w].fetched) ->
              /\ LET merged == mergeSnapshots(reqs[w].snap, reqs[w].fetched, now)
                 IN  /\ version' = merged.version
                     /\ lastSnapshot' = merged
                     /\ cache' = merged
                     /\ reqs' = [reqs EXCEPT ![w].pc = "awaitCacheMerged", ![w].merged = merged]
              /\ now' = now + 1
              /\ UNCHANGED <<pendingPersist, remote, synced, superseded>>
    /\ UNCHANGED <<doc, transcripts, mcqAnswers,
                   timer, throttler, rst, remoteSession,
                   cacheSession, pending, budget>>
    /\ UNCHANGED <<serviceVars, objectVars>>

\* handleConflict after `await cache.writeNotebook(merged)`:
\* saveNotebook(merged, {expectedVersion: remote.version})
RetryCall(w) ==
    /\ reqs[w].pc = "awaitCacheMerged"
    /\ \E r \in SaveResults(TRUE, reqs[w].fetched.version) :
           /\ reqs' = [reqs EXCEPT ![w].pc = "awaitRetry", ![w].res = r,
                                   ![w].expected = reqs[w].fetched.version,
                                   ![w].saves = @ + 1,
                                   ![w].clean = @ /\ r # "offline"]
           /\ IF r = "ok"
              THEN AcceptedSave(reqs[w].merged)
              ELSE UNCHANGED <<remote, synced, superseded>>
    /\ UNCHANGED <<now, doc, transcripts, mcqAnswers, version, lastSnapshot,
                   pendingPersist, timer, throttler, rst, remoteSession,
                   cache, cacheSession, pending, budget>>
    /\ UNCHANGED <<serviceVars, objectVars>>

\* handleConflict after the retry (or the unconditional save) settled
RetryDone(w) ==
    /\ reqs[w].pc = "awaitRetry"
    /\ CASE reqs[w].res = "ok" ->
              /\ reqs' = [reqs EXCEPT ![w].pc = "awaitPost"]
              /\ UNCHANGED <<pending, pendingPersist>>
         [] reqs[w].res = "offline" /\ Exists(reqs[w].fetched) ->
              /\ pending' = storePendingSnapshot(pending, [reqs[w].merged EXCEPT !.pending = TRUE])
              /\ reqs' = [reqs EXCEPT ![w].pc = "awaitPost"]
              /\ UNCHANGED pendingPersist
         [] reqs[w].res = "offline" /\ ~Exists(reqs[w].fetched) ->
              /\ reqs' = [reqs EXCEPT ![w] = Done("OfflineError")]
              /\ pendingPersist' = 0
              /\ UNCHANGED pending
         [] reqs[w].res = "conflict" ->
              \* only OfflineError is caught
              /\ reqs' = [reqs EXCEPT ![w] = Done("ConflictError")]
              /\ pendingPersist' = 0
              /\ UNCHANGED pending
    /\ UNCHANGED <<now, doc, transcripts, mcqAnswers, version, lastSnapshot,
                   timer, throttler, rst, remote, remoteSession,
                   cache, cacheSession, budget, synced, superseded>>
    /\ UNCHANGED <<serviceVars, objectVars>>

\* persistSession (cache.writeSession, then firestore.saveSession with an OfflineError
\* swallowed); persistInternal returns and the finally() of ensurePersist clears pendingPersist
Finish(w) ==
    /\ reqs[w].pc = "awaitPost"
    /\ cacheSession' = SessionState(now)
    /\ \E r \in CallResults :
          remoteSession' = IF r = "ok" THEN SessionState(now) ELSE remoteSession
    /\ reqs' = [reqs EXCEPT ![w] = Done("resolved")]
    /\ pendingPersist' = 0
    /\ UNCHANGED <<now, doc, transcripts, mcqAnswers, version, lastSnapshot,
                   timer, throttler, rst, remote,
                   cache, pending, budget, synced, superseded>>
    /\ UNCHANGED <<serviceVars, objectVars>>

\* pendingPersist.then(() => persistInternal()).finally(...): the promise chained on settled
StartChained(w) ==
    /\ reqs[w].pc = "waiting"
    /\ Settled(reqs[w].prev)
    /\ IF reqs[reqs[w].prev].outcome = "resolved"
       THEN /\ reqs' = [reqs EXCEPT ![w] = persistInternal(@)]
            /\ lastSnapshot' = captureSnapshot(now)
            /\ cache' = captureSnapshot(now)
            /\ now' = now + 1
            /\ UNCHANGED pendingPersist
       ELSE /\ reqs' = [reqs EXCEPT ![w] = Done(reqs[reqs[w].prev].outcome)]
            /\ pendingPersist' = 0
            /\ UNCHANGED <<lastSnapshot, cache, now>>
    /\ UNCHANGED <<doc, transcripts, mcqAnswers, version,
                   timer, throttler, rst, remote, remoteSession,
                   cacheSession, pending, budget, synced, superseded>>
    /\ UNCHANGED <<serviceVars, objectVars>>

(***************************************************************************)
(* NotebookBinding.performRestore, await by await.                         *)
(***************************************************************************)
\* after `await consumePendingSnapshots`: cache.readNotebook
ReadCached ==
    /\ rst.pc = "awaitConsume"
    /\ rst' = [rst EXCEPT !.pc = "awaitCached", !.cached = cache]
    /\ UNCHANGED <<now, doc, transcripts, mcqAnswers, version, lastSnapshot,
                   pendingPersist, reqs, timer, throttler, remote, remoteSession,
                   cache, cacheSession, pending, budget, synced, superseded>>
    /\ UNCHANGED <<serviceVars, objectVars>>

\* the outcomes of the restore's getNotebook: a value, an OfflineError, another Error
ReadResults ==
    CallResults \cup {"error"}

GetRemote_SwallowsErrors ==
    /\ rst.pc = "awaitCached"
    /\ \E r \in ReadResults :
          rst' = [rst EXCEPT !.pc = "awaitRemote", !.res = r,
                             !.seen = IF r = "ok" THEN remote ELSE NoSnap]
    /\ UNCHANGED <<now, doc, transcripts, mcqAnswers, version, lastSnapshot,
                   pendingPersist, reqs, timer, throttler, remote, remoteSession,
                   cache, cacheSession, pending, budget, synced, superseded>>
    /\ UNCHANGED <<serviceVars, objectVars>>

\* after `await readNotebook`: firestore.getNotebook, an OfflineError leaves remote
\* undefined, any other error is thrown again and rejects restoreComplete
GetRemote ==
    /\ rst.pc = "awaitCached"
    /\ \E r \in ReadResults :
          rst' = IF r = "error"
                 THEN [rst EXCEPT !.pc = "done", !.res = r]
                 ELSE [rst EXCEPT !.pc = "awaitRemote", !.res = r,
                                  !.seen = IF r = "ok" THEN remote ELSE NoSnap]
    /\ UNCHANGED <<now, doc, transcripts, mcqAnswers, version, lastSnapshot,
                   pendingPersist, reqs, timer, throttler, remote, remoteSession,
                   cache, cacheSession, pending, budget, synced, superseded>>
    /\ UNCHANGED <<serviceVars, objectVars>>

\* a replay that passes no expectedVersion: saveNotebook({...pending, pending: undefined})
ReplayCall_Unconditional(i) ==
    LET p == rst.drained[i]
    IN  /\ \E r \in SaveResults(FALSE, p.version - 1) :
              /\ rst' = [rst EXCEPT !.pc = "awaitReplay", !.idx = i, !.res = r,
                                    !.accepted = IF r = "ok" THEN @ \cup {p} ELSE @]
              /\ remote' = IF r = "ok" THEN [p EXCEPT !.pending = FALSE] ELSE remote
        /\ UNCHANGED <<doc, transcripts, mcqAnswers, version, lastSnapshot, reqs>>

\* a replay that saves the drained snapshot as it was queued: saveNotebook(pending, ...)
ReplayCall_KeepsFlag(i) ==
    LET p == rst.drained[i]
    IN  /\ \E r \in SaveResults(TRUE, p.version - 1) :
              /\ rst' = [rst EXCEPT !.pc = "awaitReplay", !.idx = i, !.res = r,
                                    !.accepted = IF r = "ok" THEN @ \cup {p} ELSE @]
              /\ remote' = IF r = "ok" THEN p ELSE remote
        /\ UNCHANGED <<doc, transcripts, mcqAnswers, version, lastSnapshot, reqs>>

\* saveNotebook({...pending, pending: undefined}, {expectedVersion: pending.version - 1})
ReplayCall(i) ==
    LET p == rst.drained[i]
    IN  /\ \E r \in SaveResults(TRUE, p.version - 1) :
              /\ rst' = [rst EXCEPT !.pc = "awaitReplay", !.idx = i, !.res = r,
                                    !.accepted = IF r = "ok" THEN @ \cup {p} ELSE @]
              /\ remote' = IF r = "ok" THEN [p EXCEPT !.pending = FALSE] ELSE remote
        /\ UNCHANGED <<doc, transcripts, mcqAnswers, version, lastSnapshot, reqs>>

applySnapshot(snapshot) ==
    /\ version' = snapshot.version
    /\ transcripts' = snapshot.transcripts
    /\ mcqAnswers' = snapshot.mcqAnswers
    /\ lastSnapshot' = snapshot
    /\ doc' = [i \in 1..Len(snapshot.cells) |-> toCellDto(snapshot.cells[i])]
    /\ reqs' = Stale(reqs)

\* chooseSnapshot, applySnapshot and the result of performRestore
Settle ==
    LET snapshot == chooseSnapshot(rst.seen, rst.cached)
    IN  /\ IF Exists(snapshot)
           THEN /\ applySnapshot(snapshot)
                /\ rst' = [rst EXCEPT !.pc = "done",
                             !.appliedRemote = Exists(rst.seen),
                             !.source = IF Exists(rst.seen) THEN "remote" ELSE "localCache"]
           ELSE /\ rst' = [rst EXCEPT !.pc = "done", !.source = "empty"]
                /\ UNCHANGED <<doc, transcripts, mcqAnswers, version, lastSnapshot, reqs>>
        /\ UNCHANGED remote

\* after `await getNotebook`: replay the drained snapshots, or choose and apply
AfterRemote ==
    /\ rst.pc = "awaitRemote"
    /\ IF Len(rst.drained) > 0 /\ Exists(rst.seen) THEN ReplayCall(1) ELSE Settle
    /\ UNCHANGED <<now, pendingPersist, timer, throttler, remoteSession,
                   cache, cacheSession, pending, budget, synced, superseded>>
    /\ UNCHANGED <<serviceVars, objectVars>>

\* the code after one replayed save: re-queue on OfflineError and break, else go on
ReplayDone ==
    /\ rst.pc = "awaitReplay"
    /\ IF rst.res = "offline"
       THEN /\ pending' = storePendingSnapshot(pending, rst.drained[rst.idx])
            /\ rst' = [rst EXCEPT !.pc = "awaitRequeue"]
            /\ UNCHANGED <<doc, transcripts, mcqAnswers, version, lastSnapshot, remote, reqs>>
       ELSE /\ IF rst.idx < Len(rst.drained) THEN ReplayCall(rst.idx + 1) ELSE Settle
            /\ UNCHANGED pending
    /\ UNCHANGED <<now, pendingPersist, timer, throttler, remoteSession,
                   cache, cacheSession, budget, synced, superseded>>
    /\ UNCHANGED <<serviceVars, objectVars>>

\* after `await storePendingSnapshot` and the break
AfterRequeue ==
    /\ rst.pc = "awaitRequeue"
    /\ Settle
    /\ UNCHANGED <<now, pendingPersist, timer, throttler, remoteSession,
                   cache, cacheSession, pending, budget, synced, superseded>>
    /\ UNCHANGED <<serviceVars, objectVars>>

\* the binding is disposed when idle and the notebook is registered again:
\* a new NotebookBinding over the same cache and remote store
Reopen ==
    /\ budget.reopen > 0
    /\ rst.pc = "done"
    /\ \A w \in 1..Len(reqs) : Settled(w)
    /\ ~timer
    /\ throttler.active = 0
    /\ budget' = [budget EXCEPT !.reopen = @ - 1]
    /\ doc' = InitialDoc
    /\ transcripts' = <<>>
    /\ mcqAnswers' = NoAnswer
    /\ version' = 0
    /\ lastSnapshot' = NoSnap
    /\ pendingPersist' = 0
    /\ reqs' = <<>>
    /\ rst' = NewRestore(pending)
    /\ pending' = consumePendingSnapshots(pending).left
    /\ synced' = <<>>
    /\ UNCHANGED <<now, timer, throttler, remote, remoteSession,
                   cache, cacheSession, superseded>>
    /\ UNCHANGED <<serviceVars, objectVars>>

(***************************************************************************)
(* Specifications: one binding under four workloads.                       *)
(***************************************************************************)
\* the steps of persistInternal and handleConflict of every request
PersistStep ==
    \/ \E w \in 1..Len(reqs) : SaveCall(w)
    \/ \E w \in 1..Len(reqs) : SaveDone(w)
    \/ \E w \in 1..Len(reqs) : FetchDone(w)
    \/ \E w \in 1..Len(reqs) : RetryCall(w)
    \/ \E w \in 1..Len(reqs) : RetryDone(w)
    \/ \E w \in 1..Len(reqs) : Finish(w)

\* the steps of performRestore of a binding that drained no pending snapshot
RestoreStep ==
    \/ ReadCached
    \/ GetRemote
    \/ AfterRemote

\* the local mutations that schedule a write
Mutation ==
    \/ EditCell
    \/ AppendTranscript
    \/ UpdateMCQAnswer

\* one writer: mutations, debounced writes and flush() calls after the restore settled
InitOverlap ==
    InitBudget(OverlapCalls, OverlapEdits, 0, 0, SettledRestore)

NextOverlap ==
    \/ Mutation
    \/ Flush
    \/ TimerFire
    \/ ThrottlerComplete
    \/ PersistStep
    \/ \E w \in 1..Len(reqs) : StartChained(w)

SpecOverlap ==
    InitOverlap /\ [][NextOverlap]_vars

\* a binding just constructed, its restore running; the binding registered again when idle
InitRestart ==
    InitBudget(RestartCalls, RestartEdits, 0, MaxReopen, NewRestore(<<>>))

NextRestart ==
    \/ Mutation
    \/ Flush
    \/ TimerFire
    \/ ThrottlerComplete
    \/ PersistStep
    \/ \E w \in 1..Len(reqs) : StartChained(w)
    \/ RestoreStep
    \/ ReplayDone
    \/ AfterRequeue
    \/ Reopen

SpecRestart ==
    InitRestart /\ [][NextRestart]_vars

\* two writers: the binding after its restore settled, and another writer of the document
InitConflict ==
    InitBudget(ConflictCalls, ConflictEdits, MaxExternal, 0, SettledRestore)

NextConflict ==
    \/ ExternalWrite
    \/ Mutation
    \/ Flush
    \/ TimerFire
    \/ ThrottlerComplete
    \/ PersistStep
    \/ \E w \in 1..Len(reqs) : StartChained(w)

SpecConflict ==
    InitConflict /\ [][NextConflict]_vars

\* debounced writes only (flush() is never called), and another writer of the document
InitDebounce ==
    InitBudget(DebounceFires, DebounceEdits, DebounceExternal, 0, SettledRestore)

NextDebounce ==
    \/ ExternalWrite
    \/ Mutation
    \/ TimerFire
    \/ ThrottlerComplete
    \/ PersistStep

SpecDebounce ==
    InitDebounce /\ [][NextDebounce]_vars

(***************************************************************************)
(* Properties.                                                             *)
(***************************************************************************)
\* the requests whose persistInternal is running
Running ==
    {w \in 1..Len(reqs) : InFlight(w)}

\* C1: for one binding at most one write (persistInternal execution) is in flight at any
\* time; a write requested while another runs starts only after that one has finished
C1_OneWriteInFlight ==
    Cardinality(Running) <= 1

\* C2: every remote save the engine issues and the store accepts stores a version strictly
\* greater than the version stored before it, also when the save overlaps a restore
C2_VersionIncreases ==
    [][(Exists(remote) /\ remote' # remote) => remote'.version > remote.version]_vars

\* C3: the promise of a flush() call never rejects with OfflineError or ConflictError,
\* whatever the remote store answers to the save, the conflict fetch and the retry
C3_FlushResolves ==
    [][\A w \in 1..Len(reqs) :
          (reqs[w].origin = "flush" /\ reqs'[w].pc = "done")
              => reqs'[w].outcome = "resolved"]_vars

\* two snapshots with the same version, cell contents, transcripts and answers
SameContent(s, t) ==
    /\ s.version = t.version
    /\ Len(s.cells) = Len(t.cells)
    /\ \A i \in 1..Len(s.cells) : toCellDto(s.cells[i]) = toCellDto(t.cells[i])
    /\ s.transcripts = t.transcripts
    /\ s.mcqAnswers = t.mcqAnswers

\* C4: when a save attempt (the initial save or the merged retry) failed Offline, the
\* snapshot submitted is appended to the pending queue with pending = TRUE, the cache
\* holds that snapshot, and the write goes on to its end without an error
C4_OfflineQueued ==
    [][\A w \in 1..Len(reqs) :
          /\ (reqs[w].pc = "awaitSave" /\ reqs[w].res = "offline" /\ reqs'[w].pc # "awaitSave")
                => /\ pending' = Append(pending, [reqs[w].snap EXCEPT !.pending = TRUE])
                   /\ SameContent(cache', reqs[w].snap)
                   /\ reqs'[w].pc = "awaitPost"
          /\ (reqs[w].pc = "awaitRetry" /\ reqs[w].res = "offline" /\ Exists(reqs[w].fetched)
                 /\ reqs'[w].pc # "awaitRetry")
                => /\ pending' = Append(pending, [reqs[w].merged EXCEPT !.pending = TRUE])
                   /\ SameContent(cache', reqs[w].merged)
                   /\ reqs'[w].pc = "awaitPost"]_vars

\* C5: a save rejected as a Conflict is followed by a fetch of the remote snapshot; the
\* merge of the captured snapshot with the fetched one is written to the cache and
\* resubmitted with expectedVersion = the fetched version; when the fetched snapshot is one
\* version above the binding's (one external write) and a local cell is newer than the
\* fetched one, the accepted retry leaves the local content in the remote store, two
\* versions above the binding's
C5_ConflictMerged ==
    [][\A w \in 1..Len(reqs) :
          LET local == reqs[w].snap
              theirs == reqs[w].fetched
              Newer(id) == MapGet(local.cells, id).lastModified
                              > MapGet(theirs.cells, id).lastModified
          IN  /\ (reqs[w].pc = "awaitSave" /\ reqs[w].res = "conflict"
                     /\ reqs'[w].pc # "awaitSave")
                    => /\ reqs'[w].pc = "awaitFetch"
                       /\ reqs'[w].res = "ok" => reqs'[w].fetched = remote
              /\ (reqs[w].pc = "awaitFetch" /\ reqs[w].res = "ok" /\ Exists(theirs)
                     /\ reqs'[w].pc # "awaitFetch")
                    => /\ reqs'[w].pc = "awaitCacheMerged"
                       /\ cache' = reqs'[w].merged
                       /\ \A i \in 1..Len(CellIds) :
                             ContentOf(cache'.cells, CellIds[i]) =
                                IF MapGet(theirs.cells, CellIds[i]).lastModified
                                       > MapGet(local.cells, CellIds[i]).lastModified
                                THEN ContentOf(theirs.cells, CellIds[i])
                                ELSE ContentOf(local.cells, CellIds[i])
              /\ (reqs[w].pc = "awaitCacheMerged" /\ reqs'[w].pc # "awaitCacheMerged")
                    => /\ reqs'[w].expected = theirs.version
                       /\ reqs'[w].res = "ok" => remote' = reqs[w].merged
              /\ (reqs[w].pc = "awaitCacheMerged" /\ reqs'[w].pc = "awaitRetry"
                     /\ reqs'[w].res = "ok" /\ local.version = theirs.version)
                    => /\ remote'.version = local.version + 1
                       /\ \A i \in 1..Len(CellIds) :
                             Newer(CellIds[i]) =>
                                ContentOf(remote'.cells, CellIds[i])
                                    = ContentOf(local.cells, CellIds[i])]_vars

\* C5: the retry of a write was accepted; the external writer had changed a cell that the
\* local side changed later, and the remote store holds the local content
C5_Witness ==
    \E w \in 1..Len(reqs) : \E i \in 1..Len(CellIds) :
        /\ reqs[w].pc = "awaitRetry"
        /\ reqs[w].res = "ok"
        /\ reqs[w].snap.version = reqs[w].fetched.version
        /\ reqs[w].fetched.cells[i].content = ExternalContent
        /\ reqs[w].snap.cells[i].content \notin {0, ExternalContent}
        /\ remote.cells[i].content = reqs[w].snap.cells[i].content
        /\ remote.version = reqs[w].snap.version + 1
        /\ cache = remote

\* C6: when the external writer changed only cell b in the remote store and the local
\* side changed only cell a since its last accepted save, the save accepted after the
\* conflict merge stores the local content of a and the external content of b
C6_UnrelatedEditsKept ==
    [][\A w \in 1..Len(reqs) :
          (reqs[w].pc = "awaitCacheMerged" /\ reqs'[w].pc = "awaitRetry" /\ reqs'[w].res = "ok")
              => \A i, j \in 1..Len(CellIds) :
                    LET a == CellIds[i]
                        b == CellIds[j]
                        local == reqs[w].snap.cells
                        theirs == reqs[w].fetched.cells
                    IN  (/\ a # b
                         /\ synced # <<>>
                         /\ ContentOf(local, a) # ContentOf(synced, a)
                         /\ ContentOf(local, b) = ContentOf(synced, b)
                         /\ ContentOf(theirs, a) = ContentOf(synced, a)
                         /\ ContentOf(theirs, b) # ContentOf(synced, b))
                        => /\ ContentOf(remote'.cells, a) = ContentOf(local, a)
                           /\ ContentOf(remote'.cells, b) = ContentOf(theirs, b)]_vars

\* C7: when a restore has settled, every pending snapshot it drained from the queue has
\* been accepted by the remote store in a replay, or is back in the queue, or is older
\* than a save of the document the remote store accepted since
C7_PendingKept ==
    rst.pc = "done" =>
        \A i \in 1..Len(rst.drained) :
            \/ \E j \in i..Len(rst.drained) : rst.drained[j] \in rst.accepted
            \/ rst.drained[i] \in Entries(pending)
            \/ rst.drained[i] \in superseded

\* C8: after the remote store accepted a save of the binding (the save or the retry),
\* the pending queue of the document is empty
C8_PendingCleared ==
    [][\A w \in 1..Len(reqs) :
          (reqs[w].pc \in {"awaitSave", "awaitRetry"} /\ reqs[w].res = "ok"
              /\ reqs'[w].pc = "awaitPost")
              => pending' = <<>>]_vars

\* the remote store holds the current state of the document
RemoteCurrent ==
    /\ Exists(remote)
    /\ \A i \in 1..Len(doc) : ContentOf(remote.cells, doc[i].id) = doc[i].content
    /\ Len(remote.cells) = Len(doc)
    /\ remote.transcripts = transcripts
    /\ remote.mcqAnswers = mcqAnswers

\* C9: after saves failed Offline (the pending queue holds their snapshots), a write that
\* reaches the remote store in every call, during which nobody else writes and the document
\* does not change, ends without an error and with the remote store holding the document's
\* current cells, transcripts and answers
C9_ConsistentAfterOutage ==
    [][\A w \in 1..Len(reqs) :
          (InFlight(w) /\ reqs[w].clean /\ pending # <<>> /\ reqs'[w].pc = "done")
              => /\ reqs'[w].outcome = "resolved"
                 /\ RemoteCurrent']_vars

\* C9: a write ended after an earlier one was queued Offline, and the remote store holds
\* the edited document
C9_Witness ==
    /\ pending # <<>>
    /\ RemoteCurrent
    /\ \E i \in 1..Len(doc) : doc[i].content # 0
    /\ Len(reqs) = 2
    /\ \A w \in 1..Len(reqs) : reqs[w].outcome = "resolved"
    /\ ~timer

\* C10: without flush(), a change notification (or appendTranscript / updateMCQAnswer)
\* starts no write and leaves one debounce timeout armed; when the timeout fires exactly
\* one write is started, at once or when the running write has ended; no write starts
\* otherwise, and a write that met no conflict issued exactly one remote save
C10_Coalescing ==
    [][/\ budget'.edits < budget.edits
            => (timer' /\ Len(reqs') = Len(reqs) /\ throttler' = throttler)
       /\ (timer /\ ~timer')
            => IF throttler.active = 0
               THEN /\ Len(reqs') = Len(reqs) + 1
                    /\ reqs'[Len(reqs')].pc = "awaitCache"
               ELSE /\ Len(reqs') = Len(reqs)
                    /\ throttler'.queued
       /\ Len(reqs') > Len(reqs)
            => \/ timer /\ ~timer' /\ throttler.active = 0
               \/ throttler.queued /\ ~throttler'.queued /\ Len(reqs') = Len(reqs) + 1
       /\ \A w \in 1..Len(reqs) :
             (reqs[w].pc = "awaitPost" /\ reqs'[w].pc = "done" /\ ~reqs[w].conflict)
                 => reqs[w].saves = 1]_vars

\* C10: two mutations fell into one debounce window and one write, with one remote save,
\* has ended
C10_Witness ==
    /\ budget.edits = 0
    /\ budget.calls = DebounceFires - 1
    /\ ~timer
    /\ Len(reqs) = 1
    /\ reqs[1].outcome = "resolved"
    /\ RemoteCurrent

\* flush() calls only, some of them made while a write is running, and another writer
ChainedCalls == 3
ChainedExternal == 1

InitChained ==
    InitBudget(ChainedCalls, 0, ChainedExternal, 0, SettledRestore)

NextChained ==
    \/ ExternalWrite
    \/ Flush
    \/ PersistStep
    \/ \E w \in 1..Len(reqs) : StartChained(w)

SpecChained ==
    InitChained /\ [][NextChained]_vars

\* C11: no triggered write is dropped: a call chained on a running write never settles
\* without persistInternal having captured a snapshot for it, unless a write that started
\* after it is running or a trigger is still outstanding (an armed timeout, a queued task)
C11_NoDroppedWrite ==
    [][\A w \in 1..Len(reqs) :
          (reqs[w].pc = "waiting" /\ reqs'[w].pc = "done")
              => \/ \E x \in (w + 1)..Len(reqs) : reqs'[x].pc \notin {"waiting", "done"}
                 \/ timer'
                 \/ throttler'.queued]_vars

HoldsDocumentState(s) ==
    /\ Exists(s)
    /\ Len(s.cells) = Len(doc)
    /\ \A i \in 1..Len(doc) :
          s.cells[i].id = doc[i].id /\ s.cells[i].content = doc[i].content
    /\ s.transcripts = transcripts
    /\ s.mcqAnswers = mcqAnswers

\* the latest call is flush() call w, its remote calls all succeeded, and nothing has
\* changed the document since (a change arms the timeout, which only a later call clears)
FlushUndisturbed(w) ==
    /\ w = Len(reqs)
    /\ reqs[w].origin = "flush"
    /\ reqs[w].clean
    /\ ~timer
    /\ ~throttler.queued

\* C12: when a flush() resolves with the remote store reachable, no other writer and no
\* later edit, the remote store and the local cache both hold the document's cell
\* contents, transcripts and answers, and flush() leaves no timeout armed
C12_FlushPersists ==
    /\ [][\A w \in 1..Len(reqs) :
            (FlushUndisturbed(w) /\ reqs[w].pc = "awaitPost" /\ reqs'[w].pc = "done")
                => HoldsDocumentState(remote') /\ HoldsDocumentState(cache')]_vars
    /\ [][budget'.calls < budget.calls /\ Len(reqs') > Len(reqs)
             /\ reqs'[Len(reqs')].origin = "flush" => ~timer']_vars

\* C13: flush() is idempotent: once a write has resolved and the remote store holds the
\* document state at the binding's version, a further flush() issues no remote save
C13_FlushIdempotent ==
    [][\A w \in 2..Len(reqs) :
          (/\ reqs[w].origin = "flush"
           /\ \A x \in 1..(w - 1) : reqs[x].pc = "done" /\ reqs[x].outcome = "resolved"
           /\ HoldsDocumentState(remote)
           /\ remote.version = version)
              => reqs'[w].saves <= reqs[w].saves]_vars

\* C14: a change made before the restore settles arms the debounce timeout, and a change
\* still awaiting its write when the restore settles is not discarded by the restore
C14_EarlyChangesKept ==
    /\ [][(rst.pc # "done" /\ rst' = rst
             /\ (doc' # doc \/ transcripts' # transcripts \/ mcqAnswers' # mcqAnswers))
               => timer']_vars
    /\ [][(rst.pc # "done" /\ rst'.pc = "done" /\ timer)
               => doc' = doc /\ transcripts' = transcripts /\ mcqAnswers' = mcqAnswers]_vars

\* applySnapshot(s) has seeded the document, transcripts, answers and version from s
SeededFrom(s) ==
    /\ doc' = [i \in 1..Len(s.cells) |-> [id |-> s.cells[i].id, content |-> s.cells[i].content]]
    /\ transcripts' = s.transcripts
    /\ mcqAnswers' = s.mcqAnswers
    /\ version' = s.version

\* C15: when the restore settles with a result it applies the snapshot with the larger updatedAt of the
\* cached and the remote one, the only one if just one exists, and leaves the document
\* untouched if neither exists; document, transcripts, answers and version are seeded
\* from the applied snapshot
C15_RestoreChoice ==
    [][(rst.pc # "done" /\ rst'.pc = "done" /\ rst'.res # "error") =>
          LET rem == rst.seen
              cached == rst.cached
          IN  CASE Exists(rem) /\ Exists(cached) ->
                       /\ rem.updatedAt > cached.updatedAt => SeededFrom(rem)
                       /\ cached.updatedAt > rem.updatedAt => SeededFrom(cached)
                       /\ SeededFrom(rem) \/ SeededFrom(cached)
                [] Exists(rem) /\ ~Exists(cached) -> SeededFrom(rem)
                [] ~Exists(rem) /\ Exists(cached) -> SeededFrom(cached)
                [] OTHER -> /\ doc' = doc
                            /\ transcripts' = transcripts
                            /\ mcqAnswers' = mcqAnswers
                            /\ version' = version]_vars

\* C15: a restore has settled that found both snapshots, the cached one newer and with
\* other cell contents than the remote one, and the document holds the cached contents
C15_Witness ==
    /\ rst.pc = "done"
    /\ Exists(rst.seen)
    /\ Exists(rst.cached)
    /\ rst.cached.updatedAt > rst.seen.updatedAt
    /\ \E i \in 1..Len(rst.cached.cells) :
          rst.cached.cells[i].content # ContentOf(rst.seen.cells, rst.cached.cells[i].id)
    /\ doc = [i \in 1..Len(rst.cached.cells) |-> toCellDto(rst.cached.cells[i])]
    /\ version = rst.cached.version

\* C16: the restore that settled with a result reports source "remote" exactly when the applied snapshot is
\* the remote one, "localCache" exactly when it is the cached one, and "empty" exactly
\* when no snapshot was applied
C16_SourceReported ==
    (rst.pc = "done" /\ rst.res # "error") =>
        LET applied == chooseSnapshot(rst.seen, rst.cached)
        IN  /\ rst.source = "empty" <=> ~Exists(applied)
            /\ rst.source = "remote" => Exists(applied) /\ applied = rst.seen
            /\ rst.source = "localCache" => Exists(applied) /\ applied = rst.cached
            /\ (Exists(applied) /\ applied # rst.cached) => rst.source = "remote"
            /\ (Exists(applied) /\ applied # rst.seen) => rst.source = "localCache"

\* C17: when the restore's remote read fails with Offline and the cache holds a snapshot,
\* the restore settles with source "localCache", appliedRemote false and the document
\* reset to the cached cells; when the read fails with any other error the restore
\* rejects: no result, nothing applied
C17_OfflineRestore ==
    [][(rst.pc # "done" /\ rst'.pc = "done") =>
          /\ (rst.res = "offline" /\ ~Exists(rst.seen) /\ Exists(rst.cached)) =>
                 /\ rst'.source = "localCache"
                 /\ ~rst'.appliedRemote
                 /\ doc' = [i \in 1..Len(rst.cached.cells) |-> toCellDto(rst.cached.cells[i])]
          /\ rst'.res = "error" =>
                 /\ rst'.source = "none"
                 /\ doc' = doc /\ version' = version
                 /\ transcripts' = transcripts /\ mcqAnswers' = mcqAnswers]_vars

\* C17: a restore whose remote read failed with Offline has settled from a cached
\* snapshot that holds an edited cell, and the document holds the cached cells
C17_Witness ==
    /\ rst.pc = "done"
    /\ rst.res = "offline"
    /\ ~Exists(rst.seen)
    /\ Exists(rst.cached)
    /\ rst.source = "localCache"
    /\ doc = [i \in 1..Len(rst.cached.cells) |-> toCellDto(rst.cached.cells[i])]
    /\ \E i \in 1..Len(doc) : doc[i].content # InitialDoc[i].content

\* the merge functions applied to arbitrary snapshots of two writers: every pair of cell
\* lists, or every pair of transcript lists, up to the bounds; cells and messages carry
\* the side they come from as content (1 local, 2 remote)
MaxCells == 2
MaxMessages == 2
MaxStamp == 3
MergeIds == {"A", "B"}
MessageIds == {"m1", "m2"}
QuestionIds == {"q1", "q2"}

SeqsUpTo(S, n) ==
    UNION {[1..k -> S] : k \in 0..n}

CellsOf(side) ==
    [id : MergeIds, content : {side}, lastModified : 1..MaxStamp]

MessagesOf(side) ==
    [id : MessageIds, text : {side}, timestamp : 1..MaxStamp]

\* the answer maps of one side: any subset of the question ids, each with an answer
AnswerMapsOf(side) ==
    UNION {[Q -> [questionId : QuestionIds, selected : {side}, updatedAt : 1..MaxStamp]] :
             Q \in SUBSET QuestionIds}

InitMerge ==
    /\ now = MaxStamp + 1
    /\ doc = InitialDoc
    /\ transcripts = <<>>
    /\ mcqAnswers = NoAnswer
    /\ version = 1
    /\ pendingPersist = 0
    /\ reqs = <<>>
    /\ timer = FALSE
    /\ throttler = [active |-> 0, queued |-> FALSE]
    /\ rst = SettledRestore
    /\ remoteSession = NoSession
    /\ cache = NoSnap
    /\ cacheSession = NoSession
    /\ pending = <<>>
    /\ budget = [calls |-> 0, edits |-> 0, external |-> 0, reopen |-> 0]
    /\ synced = <<>>
    /\ superseded = {}
    /\ disposed = FALSE
    /\ registry = NoBindings
    /\ lastCall = NoCall
    /\ constructed = 0
    /\ EmptyCacheStore
    /\ \/ \E l \in SeqsUpTo(CellsOf(1), MaxCells), r \in SeqsUpTo(CellsOf(2), MaxCells) :
             /\ lastSnapshot = [NoSnap EXCEPT !.cells = l, !.version = 2, !.updatedAt = MaxStamp]
             /\ remote = [NoSnap EXCEPT !.cells = r, !.version = 2, !.updatedAt = MaxStamp]
       \/ \E l \in SeqsUpTo(MessagesOf(1), MaxMessages),
             r \in SeqsUpTo(MessagesOf(2), MaxMessages) :
             /\ lastSnapshot = [NoSnap EXCEPT !.transcripts = l, !.version = 2,
                                              !.updatedAt = MaxStamp]
             /\ remote = [NoSnap EXCEPT !.transcripts = r, !.version = 2,
                                        !.updatedAt = MaxStamp]
       \/ \E l \in AnswerMapsOf(1), r \in AnswerMapsOf(2) :
             /\ \A q \in DOMAIN l : l[q].questionId = q
             /\ \A q \in DOMAIN r : r[q].questionId = q
             /\ lastSnapshot = [NoSnap EXCEPT !.mcqAnswers = l, !.version = 2,
                                              !.updatedAt = MaxStamp]
             /\ remote = [NoSnap EXCEPT !.mcqAnswers = r, !.version = 2,
                                        !.updatedAt = MaxStamp]

\* mergeSnapshots(local, remote) applied to the two snapshots; the result is kept in cache
Merge ==
    /\ ~Exists(cache)
    /\ cache' = mergeSnapshots(lastSnapshot, remote, now)
    /\ now' = now + 1
    /\ UNCHANGED <<doc, transcripts, mcqAnswers, version, lastSnapshot, pendingPersist,
                   reqs, timer, throttler, rst, remote, remoteSession, cacheSession,
                   pending, budget, synced, superseded>>
    /\ UNCHANGED <<serviceVars, objectVars>>

NextMerge ==
    Merge

SpecMerge ==
    InitMerge /\ [][NextMerge]_vars

Ids(cells) ==
    {cells[i].id : i \in 1..Len(cells)}

\* the first two parts of the cell merge rule: the local cells in local order, each
\* replaced by a remote cell of its id that is strictly newer, then the remote-only cells
MergedInOrder(L, R, M) ==
    /\ Len(M) >= Len(L)
    /\ \A i \in 1..Len(L) :
          IF ~HasId(R, L[i].id)
          THEN M[i] = L[i]
          ELSE \E j \in Positions(R, L[i].id) :
                  M[i] = IF L[i].lastModified >= R[j].lastModified THEN L[i] ELSE R[j]
    /\ SubSeq(M, Len(L) + 1, Len(M)) = SelectSeq(R, LAMBDA c : c.id \notin Ids(L))

\* C18 (as stated): the merged list holds the local cells in order, each replaced by the
\* remote cell of its id when that is strictly newer, then the remote-only cells in remote
\* order, and contains each id of either side exactly once
C18_CellMerge ==
    Exists(cache) =>
        LET L == lastSnapshot.cells
            R == remote.cells
            M == cache.cells
        IN  /\ MergedInOrder(L, R, M)
            /\ \A id \in Ids(L) \cup Ids(R) : Cardinality(Positions(M, id)) = 1

\* C18 (amended): the same order rule; the merged list contains an id of the local list as
\* often as the local list does and a remote-only id as often as the remote list does,
\* hence each id exactly once when no id is repeated within a side
C18_CellMergeCounted ==
    Exists(cache) =>
        LET L == lastSnapshot.cells
            R == remote.cells
            M == cache.cells
        IN  /\ MergedInOrder(L, R, M)
            /\ Ids(M) = Ids(L) \cup Ids(R)
            /\ \A id \in Ids(L) : Cardinality(Positions(M, id)) = Cardinality(Positions(L, id))
            /\ \A id \in Ids(R) \ Ids(L) :
                  Cardinality(Positions(M, id)) = Cardinality(Positions(R, id))

\* C18: a merge has replaced a local cell by a newer remote one, kept another local cell
\* and appended nothing twice
C18_Witness ==
    /\ Exists(cache)
    /\ Len(lastSnapshot.cells) = 2
    /\ Len(remote.cells) = 2
    /\ Len(cache.cells) = 2
    /\ cache.cells[1].content = 2
    /\ cache.cells[2].content = 1

Cells(seq) ==
    {seq[i] : i \in 1..Len(seq)}

\* no cell of L has both the id and the lastModified of a cell of R
NoEqualStamps(L, R) ==
    \A i \in 1..Len(L), j \in 1..Len(R) :
        L[i].id = R[j].id => L[i].lastModified # R[j].lastModified

NoRepeatedId(cells) ==
    \A i, j \in 1..Len(cells) : cells[i].id = cells[j].id => i = j

\* the merge of L and R keeps every cell whose id is on one side only, keeps of two cells
\* with one id the newer one, and holds the same cells as the merge of R and L
SymmetricMerge(L, R, M) ==
    /\ \A c \in Cells(L) : c.id \notin Ids(R) => c \in Cells(M)
    /\ \A c \in Cells(R) : c.id \notin Ids(L) => c \in Cells(M)
    /\ \A c \in Cells(L), d \in Cells(R) :
          c.id = d.id => (IF c.lastModified > d.lastModified THEN c ELSE d) \in Cells(M)
    /\ Cells(M) = Cells(MergeCells(R, L))

\* C19 (as stated): whenever no shared id has equal timestamps, the merge keeps one-sided
\* cells, keeps the newer of two cells with one id, and merge(L, R) and merge(R, L)
\* contain the same cells
C19_MergeSymmetric ==
    (Exists(cache) /\ NoEqualStamps(lastSnapshot.cells, remote.cells))
        => SymmetricMerge(lastSnapshot.cells, remote.cells, cache.cells)

\* C19 (amended): the same, for snapshots in which no id is repeated within a side
C19_MergeSymmetricUniqueIds ==
    (/\ Exists(cache)
     /\ NoEqualStamps(lastSnapshot.cells, remote.cells)
     /\ NoRepeatedId(lastSnapshot.cells)
     /\ NoRepeatedId(remote.cells))
        => SymmetricMerge(lastSnapshot.cells, remote.cells, cache.cells)

\* C19: two snapshots without repeated ids have been merged that share one id, the remote
\* cell being newer, the remote one holding a second cell that the local one lacks
C19_Witness ==
    /\ Exists(cache)
    /\ NoRepeatedId(lastSnapshot.cells)
    /\ NoRepeatedId(remote.cells)
    /\ Len(cache.cells) = 2
    /\ \E c \in Cells(lastSnapshot.cells), d \in Cells(remote.cells) :
          c.id = d.id /\ d.lastModified > c.lastModified /\ d \in Cells(cache.cells)
    /\ Len(lastSnapshot.cells) = 1
    /\ Len(remote.cells) = 2

WithId(msgs, id) ==
    {msgs[i] : i \in Positions(msgs, id)}

\* C20: the transcript merge holds exactly one message for each id of either side and no
\* other: for an id of both sides the message with the larger timestamp, the local one
\* when the timestamps are equal, for an id of one side a message of that side; the
\* result is in ascending order of timestamp
C20_TranscriptMerge ==
    Exists(cache) =>
        LET L == lastSnapshot.transcripts
            R == remote.transcripts
            M == cache.transcripts
        IN  /\ Ids(M) = Ids(L) \cup Ids(R)
            /\ \A id \in Ids(M) : Cardinality(Positions(M, id)) = 1
            /\ \A i \in 1..Len(M) :
                  LET id == M[i].id
                  IN  CASE HasId(L, id) /\ HasId(R, id) ->
                              \E l \in WithId(L, id), r \in WithId(R, id) :
                                  M[i] = IF l.timestamp >= r.timestamp THEN l ELSE r
                        [] HasId(L, id) /\ ~HasId(R, id) -> M[i] \in WithId(L, id)
                        [] OTHER -> M[i] \in WithId(R, id)
            /\ \A i, j \in 1..Len(M) : i < j => M[i].timestamp <= M[j].timestamp

\* C20: a merge of transcripts has kept the local message of an id whose two messages have
\* equal timestamps and has sorted an older message of a local-only id before it
C20_Witness ==
    /\ Exists(cache)
    /\ Len(cache.transcripts) = 2
    /\ cache.transcripts[1].id \notin Ids(remote.transcripts)
    /\ cache.transcripts[1].timestamp < cache.transcripts[2].timestamp
    /\ \E l \in WithId(lastSnapshot.transcripts, cache.transcripts[2].id),
          r \in WithId(remote.transcripts, cache.transcripts[2].id) :
          l.timestamp = r.timestamp /\ cache.transcripts[2] = l

\* C21: the answer merge holds exactly the question ids of either side: for an id of both
\* sides the answer with the larger updatedAt, the local one when they are equal; an
\* answer of one side only unchanged
C21_AnswerMerge ==
    Exists(cache) =>
        LET L == lastSnapshot.mcqAnswers
            R == remote.mcqAnswers
            M == cache.mcqAnswers
        IN  /\ DOMAIN M = DOMAIN L \cup DOMAIN R
            /\ \A q \in DOMAIN L \cap DOMAIN R :
                  M[q] = IF L[q].updatedAt >= R[q].updatedAt THEN L[q] ELSE R[q]
            /\ \A q \in DOMAIN L \ DOMAIN R : M[q] = L[q]
            /\ \A q \in DOMAIN R \ DOMAIN L : M[q] = R[q]

\* C21: answer maps have been merged in which one question has answers of equal updatedAt
\* on both sides, the local one kept, and another question a remote answer only
C21_Witness ==
    /\ Exists(cache)
    /\ \E q \in DOMAIN lastSnapshot.mcqAnswers \cap DOMAIN remote.mcqAnswers :
          /\ lastSnapshot.mcqAnswers[q].updatedAt = remote.mcqAnswers[q].updatedAt
          /\ cache.mcqAnswers[q].selected = 1
    /\ \E q \in DOMAIN remote.mcqAnswers \ DOMAIN lastSnapshot.mcqAnswers :
          cache.mcqAnswers[q].selected = 2

(***************************************************************************)
(* EduStorageService: the registry of bindings by document URI.  A binding  *)
(* is kept here by what the service's operations read and write: its        *)
(* identity, transcripts, answers, armed timeout and disposal.              *)
(***************************************************************************)
MaxServiceCalls == 4
URIs == {"u1", "u2"}

\* new NotebookBinding(...): the n-th binding constructed; `received` is history, the
\* answers passed to its updateMCQAnswer so far
NewBinding(n) ==
    [id |-> n, transcripts |-> <<>>, mcqAnswers |-> NoAnswer, timer |-> FALSE,
     disposed |-> FALSE, received |-> {}]

Call(op, uri, arg, result) ==
    [op |-> op, uri |-> uri, arg |-> arg, result |-> result, seq |-> lastCall.seq + 1]

InitService ==
    /\ InitBudget(0, 0, 0, 0, SettledRestore)

\* registerNotebookModel_Reconstructs: the existing binding is not looked up
RegisterNotebookModel_Reconstructs(uri) ==
    /\ lastCall.seq < MaxServiceCalls
    /\ constructed' = constructed + 1
    /\ registry' = MapPut(registry, uri, NewBinding(constructed + 1))
    /\ lastCall' = Call("registerNotebookModel", uri, "none", constructed + 1)
    /\ UNCHANGED <<disposed, bindingVars, objectVars>>

RegisterNotebookModel(uri) ==
    /\ lastCall.seq < MaxServiceCalls
    /\ IF uri \in DOMAIN registry
       THEN /\ lastCall' = Call("registerNotebookModel", uri, "none", registry[uri].id)
            /\ UNCHANGED <<registry, constructed>>
       ELSE /\ constructed' = constructed + 1
            /\ registry' = MapPut(registry, uri, NewBinding(constructed + 1))
            /\ lastCall' = Call("registerNotebookModel", uri, "none", constructed + 1)
    /\ UNCHANGED <<disposed, bindingVars, objectVars>>

\* binding.updateMCQAnswer(answer) on the binding registered for uri
UpdateBindingAnswer(uri, answer) ==
    LET b == registry[uri]
    IN  registry' = [registry EXCEPT ![uri] =
            IF AcceptsAnswer(b.mcqAnswers, answer)
            THEN [b EXCEPT !.mcqAnswers = MapPut(@, answer.questionId, answer),
                           !.timer = TRUE,
                           !.received = @ \cup {answer}]
            ELSE [b EXCEPT !.received = @ \cup {answer}]]

RecordMCQAnswer_AnyBinding(uri, answer) ==
    /\ lastCall.seq < MaxServiceCalls
    /\ IF registry = NoBindings
       THEN /\ lastCall' = Call("recordMCQAnswer", uri, answer, "NoBindingError")
            /\ UNCHANGED registry
       ELSE /\ lastCall' = Call("recordMCQAnswer", uri, answer, "ok")
            /\ UpdateBindingAnswer(CHOOSE u \in DOMAIN registry : TRUE, answer)
    /\ UNCHANGED <<disposed, constructed, bindingVars, objectVars>>

RecordMCQAnswer(uri, answer) ==
    /\ lastCall.seq < MaxServiceCalls
    /\ IF uri \notin DOMAIN registry
       THEN /\ lastCall' = Call("recordMCQAnswer", uri, answer, "NoBindingError")
            /\ UNCHANGED registry
       ELSE /\ lastCall' = Call("recordMCQAnswer", uri, answer, "ok")
            /\ UpdateBindingAnswer(uri, answer)
    /\ UNCHANGED <<disposed, constructed, bindingVars, objectVars>>

AppendTranscriptMessage(uri, message) ==
    /\ lastCall.seq < MaxServiceCalls
    /\ IF uri \notin DOMAIN registry
       THEN /\ lastCall' = Call("appendTranscriptMessage", uri, message, "NoBindingError")
            /\ UNCHANGED registry
       ELSE /\ lastCall' = Call("appendTranscriptMessage", uri, message, "ok")
            /\ registry' = [registry EXCEPT
                              ![uri].transcripts = WithMessage(@, message),
                              ![uri].timer = TRUE]
    /\ UNCHANGED <<disposed, constructed, bindingVars, objectVars>>

\* binding.dispose() of a registered binding: super.dispose() disposes the delayer and
\* both emitters, so the _onDidDispose.fire() that follows reaches no listener and the
\* service's bindings.delete(uri) does not run
DisposeBinding(uri) ==
    /\ lastCall.seq < MaxServiceCalls
    /\ uri \in DOMAIN registry
    /\ ~registry[uri].disposed
    /\ registry' = [registry EXCEPT ![uri].disposed = TRUE, ![uri].timer = FALSE]
    /\ lastCall' = Call("dispose", uri, "none", "none")
    /\ UNCHANGED <<disposed, constructed, bindingVars, objectVars>>

NextService ==
    \/ \E u \in URIs : RegisterNotebookModel(u)
    \/ \E u \in URIs, q \in QuestionIds, t \in 1..MaxStamp :
          RecordMCQAnswer(u, [questionId |-> q, selected |-> lastCall.seq + 1,
                              updatedAt |-> t])
    \/ \E u \in URIs, i \in MessageIds, t \in 1..MaxStamp :
          AppendTranscriptMessage(u, [id |-> i, text |-> lastCall.seq + 1, timestamp |-> t])
    \/ \E u \in URIs : DisposeBinding(u)

SpecService ==
    InitService /\ [][NextService]_vars

\* C22: for each question id the answer a binding holds is one of those its
\* updateMCQAnswer received, with the largest updatedAt among them, and a call with an
\* answer strictly older than the held one changes nothing and arms no timeout
C22_NewestAnswerHeld ==
    /\ [](\A u \in DOMAIN registry :
            LET b == registry[u]
            IN  /\ DOMAIN b.mcqAnswers = {a.questionId : a \in b.received}
                /\ \A q \in DOMAIN b.mcqAnswers :
                      /\ b.mcqAnswers[q] \in b.received
                      /\ \A a \in b.received :
                            a.questionId = q => a.updatedAt <= b.mcqAnswers[q].updatedAt)
    /\ [][(/\ lastCall'.seq # lastCall.seq
           /\ lastCall'.op = "recordMCQAnswer"
           /\ lastCall'.uri \in DOMAIN registry
           /\ lastCall'.arg.questionId \in DOMAIN registry[lastCall'.uri].mcqAnswers
           /\ lastCall'.arg.updatedAt
                 < registry[lastCall'.uri].mcqAnswers[lastCall'.arg.questionId].updatedAt)
             => /\ registry'[lastCall'.uri].mcqAnswers = registry[lastCall'.uri].mcqAnswers
                /\ registry'[lastCall'.uri].timer = registry[lastCall'.uri].timer
                /\ registry'[lastCall'.uri].transcripts = registry[lastCall'.uri].transcripts]_vars

\* C22: a binding received a newer answer first and an older one for the same question
\* afterwards, holds the newer one and has no timeout armed by the older one
C22_Witness ==
    /\ lastCall.op = "recordMCQAnswer"
    /\ lastCall.uri \in DOMAIN registry
    /\ LET b == registry[lastCall.uri]
           held == b.mcqAnswers[lastCall.arg.questionId]
       IN  /\ lastCall.arg.questionId \in DOMAIN b.mcqAnswers
           /\ held.updatedAt > lastCall.arg.updatedAt
           /\ held.selected < lastCall.arg.selected
           /\ lastCall.arg \in b.received

\* C23: a binding's transcript list holds one message per id and ascends by timestamp;
\* an appendTranscript call leaves the appended message as the only one of its id, keeps
\* the messages of the other ids and arms the timeout
C23_TranscriptList ==
    /\ [](\A u \in DOMAIN registry :
            LET T == registry[u].transcripts
            IN  /\ \A i, j \in 1..Len(T) : T[i].id = T[j].id => i = j
                /\ \A i, j \in 1..Len(T) : i < j => T[i].timestamp <= T[j].timestamp)
    /\ [][(/\ lastCall'.seq # lastCall.seq
           /\ lastCall'.op = "appendTranscriptMessage"
           /\ lastCall'.uri \in DOMAIN registry)
             => LET T == registry[lastCall'.uri].transcripts
                    N == registry'[lastCall'.uri].transcripts
                    m == lastCall'.arg
                IN  /\ WithId(N, m.id) = {m}
                    /\ Cardinality(Positions(N, m.id)) = 1
                    /\ \A i \in MessageIds \ {m.id} : WithId(N, i) = WithId(T, i)
                    /\ registry'[lastCall'.uri].timer]_vars

\* C23: the fourth call appended a message to a binding that holds a message of another
\* id with a later timestamp; the list holds the new message first, then the other one,
\* and the timeout is armed
C23_Witness ==
    /\ lastCall.op = "appendTranscriptMessage"
    /\ lastCall.uri \in DOMAIN registry
    /\ lastCall.seq = 4
    /\ LET T == registry[lastCall.uri].transcripts
       IN  /\ Len(T) = 2
           /\ T[1] = lastCall.arg
           /\ T[2].id # lastCall.arg.id
           /\ T[1].timestamp < T[2].timestamp
           /\ registry[lastCall.uri].timer

(***************************************************************************)
(* Change detection: handleModelChange and isInterestingChange.            *)
(***************************************************************************)
MaxChanges == 2
MaxRawEvents == 2
ChangeFires == 2
ChangeExternal == 1

\* the change kinds isInterestingChange names in its case labels
InterestingKinds ==
    {"ModelChange", "ChangeCellContent", "Move", "ChangeDocumentMetadata",
     "Metadata", "Output", "OutputItem", "ChangeCellLanguage"}

\* every kind a raw event can carry: the named ones, other kinds, and none
ChangeKinds ==
    InterestingKinds \cup
    {"Initialize", "ChangeCellMime", "undefined"}

RawEvents ==
    [kind : ChangeKinds, transient : BOOLEAN]

\* NotebookTextModelChangedEvent.rawEvents
RawEventLists ==
    UNION {[1..n -> RawEvents] : n \in 0..MaxRawEvents}

\* an isInterestingChange whose default branch answers true
isInterestingChange_All(kind) ==
    TRUE

isInterestingChange(kind) ==
    kind \in InterestingKinds

\* rawEvents.some(ev => !ev.transient && this.isInterestingChange(ev.kind))
Qualifies(rawEvents) ==
    \E i \in 1..Len(rawEvents) :
        /\ ~rawEvents[i].transient
        /\ isInterestingChange(rawEvents[i].kind)

\* the listener of model.onDidChangeContent
handleModelChange(rawEvents) ==
    IF ~Qualifies(rawEvents)
    THEN UNCHANGED timer
    ELSE queuePersist

\* the document model fires a change notification: the listener the constructor added
\* to this.store runs until dispose() has disposed the store
HandleModelChange(rawEvents) ==
    /\ lastCall.seq < MaxChanges
    /\ IF disposed
       THEN /\ lastCall' = Call("change", "none", rawEvents, "detached")
            /\ UNCHANGED timer
       ELSE /\ lastCall' = Call("change", "none", rawEvents, "delivered")
            /\ handleModelChange(rawEvents)
    /\ UNCHANGED <<now, doc, transcripts, mcqAnswers, version, lastSnapshot,
                   pendingPersist, reqs, throttler, rst, remote, remoteSession,
                   cache, cacheSession, pending, budget, synced, superseded>>
    /\ UNCHANGED <<disposed, registry, constructed, objectVars>>

InitChange ==
    InitBudget(ChangeFires, 0, ChangeExternal, 0, SettledRestore)

NextChange ==
    \/ ExternalWrite
    \/ \E rawEvents \in RawEventLists : HandleModelChange(rawEvents)
    \/ TimerFire
    \/ ThrottlerComplete
    \/ PersistStep

SpecChange ==
    InitChange /\ [][NextChange]_vars

\* the kinds the change-detection policy lists, and a notification that holds one
ListedKinds ==
    {"ModelChange", "ChangeCellContent", "Move", "ChangeDocumentMetadata",
     "Metadata", "Output", "OutputItem", "ChangeCellLanguage"}

HasListedChange(rawEvents) ==
    \E i \in 1..Len(rawEvents) :
        ~rawEvents[i].transient /\ rawEvents[i].kind \in ListedKinds

ChangeStep ==
    lastCall'.seq = lastCall.seq + 1 /\ lastCall'.op = "change"

\* C24: a change notification schedules a write exactly when it contains a raw
\* event that is not transient and whose kind is one of the eight listed kinds;
\* any other notification leaves the scheduler and the binding as they were
C24_ChangeDetection ==
    [][ChangeStep =>
          IF HasListedChange(lastCall'.arg)
          THEN timer'
          ELSE UNCHANGED bindingVars]_vars

\* a notification of two events was ignored with no write scheduled, one of its
\* events of a listed kind but transient, the other of an unlisted kind
C24_Witness ==
    /\ lastCall.op = "change"
    /\ Len(lastCall.arg) = 2
    /\ lastCall.arg[1].transient
    /\ lastCall.arg[1].kind = "Output"
    /\ ~lastCall.arg[2].transient
    /\ lastCall.arg[2].kind = "ChangeCellMime"
    /\ ~timer
    /\ reqs = <<>>

RegisterStep ==
    lastCall'.seq = lastCall.seq + 1 /\ lastCall'.op = "registerNotebookModel"

\* C25: registerNotebookModel for a URI that already has a binding returns that
\* binding, constructs no other one (so starts no other restore) and leaves the
\* registry and every binding in it as they were
C25_RegisterIdempotent ==
    [][(RegisterStep /\ lastCall'.uri \in DOMAIN registry)
          => /\ lastCall'.result = registry[lastCall'.uri].id
             /\ constructed' = constructed
             /\ registry' = registry]_vars

\* a URI was registered, its binding received a transcript message, and a second
\* registration of the same URI returned the one binding constructed so far
C25_Witness ==
    /\ lastCall.op = "registerNotebookModel"
    /\ lastCall.seq = 3
    /\ lastCall.uri \in DOMAIN registry
    /\ registry[lastCall.uri].transcripts # <<>>
    /\ lastCall.result = registry[lastCall.uri].id
    /\ constructed = 1

RecordStep ==
    /\ lastCall'.seq = lastCall.seq + 1
    /\ lastCall'.op \in {"recordMCQAnswer", "appendTranscriptMessage"}

\* what every binding but the one registered for uri holds
OtherBindings(bindings, uri) ==
    [u \in DOMAIN bindings \ {uri} |-> bindings[u]]

\* C26: recordMCQAnswer and appendTranscriptMessage for a URI with no binding fail
\* with the no-binding error and change nothing; for a URI with a binding they
\* succeed, pass the argument to that binding and leave every other binding as it was
C26_RecordNeedsBinding ==
    [][RecordStep =>
          IF lastCall'.uri \notin DOMAIN registry
          THEN /\ lastCall'.result = "NoBindingError"
               /\ registry' = registry
               /\ UNCHANGED <<bindingVars, disposed, constructed>>
          ELSE /\ lastCall'.result = "ok"
               /\ DOMAIN registry' = DOMAIN registry
               /\ OtherBindings(registry', lastCall'.uri) = OtherBindings(registry, lastCall'.uri)
               /\ IF lastCall'.op = "recordMCQAnswer"
                  THEN lastCall'.arg \in registry'[lastCall'.uri].received
                  ELSE \E i \in 1..Len(registry'[lastCall'.uri].transcripts) :
                          registry'[lastCall'.uri].transcripts[i] = lastCall'.arg]_vars

\* one URI has a binding that holds an answer recorded for it, and a later
\* recordMCQAnswer for the other URI, which has none, failed
C26_Witness ==
    /\ lastCall.op = "recordMCQAnswer"
    /\ lastCall.result = "NoBindingError"
    /\ lastCall.uri \notin DOMAIN registry
    /\ \E u \in DOMAIN registry : registry[u].mcqAnswers # NoAnswer

DisposeFires == 2
DisposeExternal == 1

\* a dispose() that ends with a final write
Dispose_Flushes ==
    /\ ~disposed
    /\ disposed' = TRUE
    /\ timer' = FALSE
    /\ ensurePersist("flush")
    /\ UNCHANGED <<doc, transcripts, mcqAnswers, version, throttler, rst, remote,
                   remoteSession, cacheSession, pending, budget, synced, superseded>>
    /\ UNCHANGED <<registry, lastCall, constructed, objectVars>>

\* dispose(): super.dispose() disposes the delayer (its timeout is cancelled, its
\* throttler starts nothing more) and the emitters, store.dispose() removes the
\* change listener; the promise in pendingPersist is not touched
Dispose ==
    /\ ~disposed
    /\ disposed' = TRUE
    /\ timer' = FALSE
    /\ UNCHANGED <<now, doc, transcripts, mcqAnswers, version, lastSnapshot,
                   pendingPersist, reqs, throttler, rst, remote, remoteSession,
                   cache, cacheSession, pending, budget, synced, superseded>>
    /\ UNCHANGED <<registry, lastCall, constructed, objectVars>>

InitDispose ==
    InitBudget(DisposeFires, 0, DisposeExternal, 0, SettledRestore)

NextDispose ==
    \/ ExternalWrite
    \/ \E ev \in RawEvents : HandleModelChange(<<ev>>)
    \/ Dispose
    \/ TimerFire
    \/ ThrottlerComplete
    \/ PersistStep

\* the event loop runs the continuation of every settled await
SpecDispose ==
    InitDispose /\ [][NextDispose]_vars /\ WF_vars(PersistStep)

DisposeStep ==
    ~disposed /\ disposed'

AllSettled ==
    \A w \in 1..Len(reqs) : Settled(w)

\* C28: dispose() starts no write and saves nothing, also when a debounce timeout
\* is armed, which it cancels; once disposed, no change notification arms a timeout
\* or changes the binding and no write is started any more; a write in flight at
\* dispose() is left running and settles
C28_DisposeStopsScheduling ==
    /\ [][DisposeStep => /\ ~timer'
                         /\ reqs' = reqs
                         /\ pendingPersist' = pendingPersist
                         /\ remote' = remote
                         /\ cache' = cache]_vars
    /\ [][disposed => /\ Len(reqs') = Len(reqs)
                      /\ ~timer'
                      /\ (ChangeStep => UNCHANGED bindingVars)]_vars
    /\ [](disposed => <>AllSettled)

\* the binding is disposed, the one write it started has settled, and a qualifying
\* change notification fired after dispose() found no listener and armed no timeout
C28_Witness ==
    /\ disposed
    /\ lastCall.op = "change"
    /\ lastCall.result = "detached"
    /\ Qualifies(lastCall.arg)
    /\ ~timer
    /\ Len(reqs) = 1
    /\ reqs[1].pc = "done"
    /\ budget.calls = DisposeFires - 1
    /\ lastCall.seq = 2

\* persistInternal of request w returns: persistSession has run
SessionStep(w) ==
    /\ w <= Len(reqs)
    /\ reqs[w].pc = "awaitPost"
    /\ reqs'[w].pc = "done"

\* C29: a write attempt that ended in an accepted save, a resolved conflict or a
\* snapshot queued offline finishes with the Session State of this document and
\* session, stamped with the current clock, written to the cache and handed to the
\* remote store, which either holds it afterwards or was offline; in both cases the
\* attempt resolves
C29_SessionPersisted ==
    [][\A w \in 1..Len(reqs) :
          SessionStep(w) =>
             /\ cacheSession'.notebookId = "notebook"
             /\ cacheSession'.sessionId = "session"
             /\ cacheSession'.lastOpened = now
             /\ remoteSession' \in {cacheSession', remoteSession}
             /\ reqs'[w].outcome = "resolved"]_vars

\* a write whose snapshot was queued offline has resolved; the cache holds the
\* Session State, the remote store, offline for the session write too, holds none
C29_Witness ==
    /\ Len(reqs) = 1
    /\ reqs[1].pc = "done"
    /\ reqs[1].outcome = "resolved"
    /\ pending # <<>>
    /\ cacheSession.notebookId = "notebook"
    /\ cacheSession.sessionId = "session"
    /\ remoteSession = NoSession

(***************************************************************************)
(* EduStorageService.restoreLastSession, await by await.                   *)
(***************************************************************************)
MaxRestores == 2
MaxSessionWrites == 2
MaxOtherSessions == 2

\* the choice made once both reads have answered
ChooseSession_PreferRemote(cached, rem) ==
    IF rem = NoSession THEN "cached" ELSE "remote"

ChooseSession(cached, rem) ==
    IF rem = NoSession
    THEN "cached"
    ELSE IF cached = NoSession \/ rem.lastOpened >= cached.lastOpened
         THEN "remote"
         ELSE "cached"

\* persistSession of a binding of this service: cache.writeSession, then
\* firestore.saveSession with an OfflineError swallowed
PersistSessionNow ==
    /\ now <= MaxSessionWrites
    /\ cacheSession' = SessionState(now)
    /\ \E r \in CallResults :
          remoteSession' = IF r = "ok" THEN SessionState(now) ELSE remoteSession
    /\ now' = now + 1
    /\ UNCHANGED <<doc, transcripts, mcqAnswers, version, lastSnapshot,
                   pendingPersist, reqs, timer, throttler, rst, remote,
                   cache, pending, budget, synced, superseded>>
    /\ UNCHANGED <<serviceVars, objectVars>>

\* the same user opens another document on another device, whose clock reads t
OtherDeviceSession(t) ==
    /\ budget.external > 0
    /\ budget' = [budget EXCEPT !.external = @ - 1]
    /\ remoteSession' = [notebookId |-> "other", sessionId |-> "other", lastOpened |-> t]
    /\ UNCHANGED <<now, doc, transcripts, mcqAnswers, version, lastSnapshot,
                   pendingPersist, reqs, timer, throttler, rst, remote,
                   cache, cacheSession, pending, synced, superseded>>
    /\ UNCHANGED <<serviceVars, objectVars>>

Restoring(pc) ==
    /\ lastCall.op = "restoreLastSession"
    /\ lastCall.arg.pc = pc

\* restoreLastSession(): cache.readSession(userId)
RestoreLastSession ==
    /\ lastCall.seq < MaxRestores
    /\ lastCall.op = "restoreLastSession" => lastCall.arg.pc = "done"
    /\ lastCall' = Call("restoreLastSession", "none",
                        [pc |-> "awaitCached", cached |-> cacheSession,
                         read |-> "none", remote |-> NoSession], "none")
    /\ UNCHANGED <<bindingVars, disposed, registry, constructed, objectVars>>

\* after `await cache.readSession`: firestore.getSession(userId) answers, or rejects
\* with an OfflineError (cached is returned) or with another error (rethrown)
GetSession ==
    /\ Restoring("awaitCached")
    /\ \E r \in ReadResults :
          lastCall' =
             IF r = "ok"
             THEN [lastCall EXCEPT !.arg.pc = "awaitRemote", !.arg.read = r,
                                   !.arg.remote = remoteSession]
             ELSE [lastCall EXCEPT !.arg.pc = "done", !.arg.read = r,
                                   !.result = IF r = "offline"
                                              THEN lastCall.arg.cached
                                              ELSE "error"]
    /\ UNCHANGED <<bindingVars, disposed, registry, constructed, objectVars>>

\* after `await firestore.getSession`: the choice, cache.writeSession(remote) when
\* the remote record is chosen, and the return
AfterGetSession ==
    /\ Restoring("awaitRemote")
    /\ IF ChooseSession(lastCall.arg.cached, lastCall.arg.remote) = "remote"
       THEN /\ cacheSession' = lastCall.arg.remote
            /\ lastCall' = [lastCall EXCEPT !.arg.pc = "done",
                                            !.result = lastCall.arg.remote]
       ELSE /\ UNCHANGED cacheSession
            /\ lastCall' = [lastCall EXCEPT !.arg.pc = "done",
                                            !.result = lastCall.arg.cached]
    /\ UNCHANGED <<now, doc, transcripts, mcqAnswers, version, lastSnapshot,
                   pendingPersist, reqs, timer, throttler, rst, remote, remoteSession,
                   cache, pending, budget, synced, superseded>>
    /\ UNCHANGED <<disposed, registry, constructed, objectVars>>

InitSession ==
    InitBudget(0, 0, MaxOtherSessions, 0, SettledRestore)

NextSession ==
    \/ PersistSessionNow
    \/ \E t \in 1..MaxStamp : OtherDeviceSession(t)
    \/ RestoreLastSession
    \/ GetSession
    \/ AfterGetSession

SpecSession ==
    InitSession /\ [][NextSession]_vars

\* restoreLastSession returns on this step
RestoreReturns ==
    /\ lastCall.op = "restoreLastSession"
    /\ lastCall.arg.pc # "done"
    /\ lastCall'.arg.pc = "done"

\* C30: restoreLastSession returns, of the cached and the remote Session State it
\* read, the one with the larger lastOpened (either of them when they are equal);
\* the cached one when the remote holds none or is offline, which is nothing when
\* the cache holds none either; a remote record that is returned is in the cache
\* when the call returns; a remote error other than offline is the call's error
C30_RestoreLastSession ==
    [][RestoreReturns =>
          LET c == lastCall'.arg.cached
              r == lastCall'.arg.remote
              read == lastCall'.arg.read
              res == lastCall'.result
          IN  /\ read = "error" => res = "error" /\ cacheSession' = cacheSession
              /\ read = "offline" => res = c /\ cacheSession' = cacheSession
              /\ (read = "ok" /\ r = NoSession) => res = c /\ cacheSession' = cacheSession
              /\ (read = "ok" /\ r # NoSession) =>
                    /\ c = NoSession => res = r
                    /\ (c # NoSession /\ r.lastOpened > c.lastOpened) => res = r
                    /\ (c # NoSession /\ r.lastOpened < c.lastOpened) => res = c
                    /\ res \in {c, r}
                    /\ (res = r /\ res # c) => cacheSession' = r]_vars

\* the cache held the Session State of this document, the remote store a session of
\* another document opened later on another device; restoreLastSession returned the
\* remote one and the cache now holds it
C30_Witness ==
    /\ Restoring("done")
    /\ lastCall.arg.read = "ok"
    /\ lastCall.arg.cached.notebookId = "notebook"
    /\ lastCall.arg.remote.notebookId = "other"
    /\ lastCall.arg.remote.lastOpened > lastCall.arg.cached.lastOpened
    /\ lastCall.result = lastCall.arg.remote
    /\ cacheSession = lastCall.arg.remote

(***************************************************************************)
(* InMemoryNotebookCache and BrowserNotebookCache: notebooks.              *)
(***************************************************************************)
MaxCacheCalls == 3

\* the value of a property that is present and holds undefined
Undefined == "undefined"

\* the properties of a snapshot and of a cell that captureSnapshot and serializeCell
\* may set to undefined: lessonProgress (this.lastSnapshot?.lessonProgress), mime
OptionalKeys ==
    {"lessonProgress", "mime"}

\* what a read that finds nothing resolves to (undefined, where a snapshot is expected)
NoSnapshot ==
    [absent |-> TRUE]

\* JSON.stringify of an object: a property whose value is undefined is left out
WithoutUndefined(object) ==
    [k \in {p \in DOMAIN object : ~(p \in OptionalKeys /\ object[p] = Undefined)}
        |-> object[k]]

\* JSON.stringify(snapshot); the text is kept as the value it denotes
stringify(snapshot) ==
    [valid |-> TRUE,
     json |-> WithoutUndefined(
                 [snapshot EXCEPT
                     !.cells = [i \in 1..Len(snapshot.cells) |->
                                   WithoutUndefined(snapshot.cells[i])]])]

\* JSON.parse(text), for a text that parses
parse(text) ==
    text.json

\* deepClone(value) for a value that is not undefined: JSON.parse(JSON.stringify(value))
deepClone(value) ==
    parse(stringify(value))

\* InMemoryNotebookCache.key and BrowserNotebookCache.notebookKey
CacheKey(userId, notebookId) ==
    userId \o "::" \o notebookId

StorageKey(userId, notebookId) ==
    "vscode.edu.notebook." \o userId \o "." \o notebookId

CacheUsers == {"u"}
CacheDocuments == {"a", "b"}

CachedCells ==
    [id : {"c1"}, content : 1..2, mime : {Undefined, "text/x"}]

\* snapshots as captureSnapshot builds them
CachedSnapshots ==
    [userId : CacheUsers, notebookId : CacheDocuments,
     cells : {<<>>} \cup {<<c>> : c \in CachedCells},
     lessonProgress : {Undefined, "lesson"},
     version : {1}]

\* what an earlier page load may have left in the Storage
StoredTexts ==
    {[valid |-> FALSE, json |-> NoSnapshot]} \cup
    {stringify(s) : s \in {x \in CachedSnapshots : x.cells = <<>>}}

\* InMemoryNotebookCache.readNotebook: deepClone(this.notebooks.get(key))
MemoryRead(map, userId, notebookId) ==
    IF CacheKey(userId, notebookId) \in DOMAIN map
    THEN deepClone(map[CacheKey(userId, notebookId)])
    ELSE NoSnapshot

\* can BrowserNotebookCache.readNotebook fall back to a stored text that parses
StoredReadable(map, store, userId, notebookId) ==
    /\ CacheKey(userId, notebookId) \notin DOMAIN map
    /\ store.present
    /\ StorageKey(userId, notebookId) \in DOMAIN store.items
    /\ store.items[StorageKey(userId, notebookId)].valid

\* the value readNotebook resolves to
ReadValue(map, store, userId, notebookId) ==
    IF CacheKey(userId, notebookId) \in DOMAIN map
    THEN MemoryRead(map, userId, notebookId)
    ELSE IF StoredReadable(map, store, userId, notebookId)
         THEN deepClone(parse(store.items[StorageKey(userId, notebookId)]))
         ELSE NoSnapshot

\* writeNotebook(snapshot): super.writeNotebook, then storage.setItem unless there is
\* no storage; a quota error of setItem is ignored
WriteNotebook(snapshot) ==
    /\ lastCall.seq < MaxCacheCalls
    /\ notebooks' = MapPut(notebooks, CacheKey(snapshot.userId, snapshot.notebookId),
                           deepClone(snapshot))
    /\ \E quota \in BOOLEAN :
          storage' = IF storage.present /\ ~quota
                     THEN [storage EXCEPT !.items =
                              MapPut(@, StorageKey(snapshot.userId, snapshot.notebookId),
                                     stringify(snapshot))]
                     ELSE storage
    /\ lastCall' = Call("writeNotebook", "none", snapshot, "none")
    /\ UNCHANGED <<bindingVars, disposed, registry, constructed, auth, sharedVars>>

\* readNotebook(userId, notebookId): a stored text that parses is written to the
\* notebooks map before its clone is returned
ReadNotebook(userId, notebookId) ==
    /\ lastCall.seq < MaxCacheCalls
    /\ lastCall' = Call("readNotebook", "none",
                        [userId |-> userId, notebookId |-> notebookId],
                        ReadValue(notebooks, storage, userId, notebookId))
    /\ notebooks' =
          IF StoredReadable(notebooks, storage, userId, notebookId)
          THEN LET parsed == parse(storage.items[StorageKey(userId, notebookId)])
               IN  MapPut(notebooks, CacheKey(parsed.userId, parsed.notebookId),
                          deepClone(parsed))
          ELSE notebooks
    /\ UNCHANGED <<bindingVars, disposed, registry, constructed, storage, auth, sharedVars>>

\* the caller changes the object it passed to writeNotebook, or the one readNotebook
\* returned: both are other objects than the clone the cache holds
MutateHeld ==
    \/ /\ lastCall.op = "writeNotebook"
       /\ lastCall.arg.version = 1
       /\ lastCall' = [lastCall EXCEPT !.arg.version = 2]
       /\ UNCHANGED <<bindingVars, disposed, registry, constructed, objectVars>>
    \/ /\ lastCall.op = "readNotebook"
       /\ lastCall.result # NoSnapshot
       /\ lastCall.result.version = 1
       /\ lastCall' = [lastCall EXCEPT !.result.version = 2]
       /\ UNCHANGED <<bindingVars, disposed, registry, constructed, objectVars>>

InitCache ==
    /\ InitBinding(0, 0, 0, 0, SettledRestore)
    /\ auth = NewAuthManager
    /\ NoPeers
    /\ notebooks = NoEntries
    /\ \/ storage = NoStorage
       \/ storage = [present |-> TRUE, items |-> NoEntries]
       \/ \E d \in CacheDocuments, t \in StoredTexts :
             /\ t.valid => t.json.notebookId = d
             /\ storage = [present |-> TRUE,
                           items |-> MapPut(NoEntries, StorageKey("u", d), t)]

NextCache ==
    \/ \E snapshot \in CachedSnapshots : WriteNotebook(snapshot)
    \/ \E u \in CacheUsers, d \in CacheDocuments : ReadNotebook(u, d)
    \/ MutateHeld

SpecCache ==
    InitCache /\ [][NextCache]_vars

WriteStep ==
    lastCall'.seq = lastCall.seq + 1 /\ lastCall'.op = "writeNotebook"

\* C31: right after writeNotebook(s) a read of s's key returns a snapshot
\* deep-equal to s, and a later change of s or of a returned snapshot leaves what the
\* cache holds unchanged
C31_CacheRoundTrip ==
    /\ [][WriteStep =>
             ReadValue(notebooks', storage', lastCall'.arg.userId,
                       lastCall'.arg.notebookId) = lastCall'.arg]_vars
    /\ [][(lastCall'.seq = lastCall.seq /\ lastCall' # lastCall)
             => notebooks' = notebooks /\ storage' = storage]_vars

(***************************************************************************)
(* AuthManager (src/src/vs/edu/common/authManager.ts) over the auth        *)
(* service of its tests.                                                   *)
(***************************************************************************)
MaxAuthCalls == 3

AuthUsers == {"alice", "bob"}

\* nextToken(uid)
TokenOf(user) ==
    user \o "-token"

\* applyState(update): update holds some of user, token, loading, error
applyState(a, update) ==
    [a EXCEPT
        !.user = IF "user" \in DOMAIN update /\ update.user # Null
                 THEN update.user ELSE a.user,
        !.token = IF "token" \in DOMAIN update THEN update.token ELSE a.token,
        !.loading = IF "loading" \in DOMAIN update THEN update.loading ELSE a.loading,
        !.error = IF "error" \in DOMAIN update THEN update.error ELSE a.error]

isAuthenticated(a) ==
    a.user # Null

\* the listener initialize() subscribed: onUser, then onToken
Notify(a, user, token) ==
    IF a.initialized
    THEN applyState(applyState(a, [user |-> user, loading |-> FALSE, error |-> Null]),
                    [token |-> token])
    ELSE a

\* the service's setActiveUser / signOut: new current user and token, listener told
ServiceSet(a, user, token) ==
    Notify([a EXCEPT !.serviceUser = user, !.serviceToken = token], user, token)

AuthFrame ==
    UNCHANGED <<bindingVars, disposed, registry, constructed, notebooks, storage, sharedVars>>

\* initialize(): service.subscribe reports the current user and token at once
Initialize ==
    /\ ~auth.initialized
    /\ auth' = Notify([auth EXCEPT !.initialized = TRUE], auth.serviceUser,
                      auth.serviceToken)
    /\ UNCHANGED lastCall
    /\ AuthFrame

\* signInWith...(): runWithLoading up to `await operation()`
SignInCall(user) ==
    /\ auth.pc = "idle"
    /\ lastCall.seq < MaxAuthCalls
    /\ lastCall' = Call("signIn", "none", user, "pending")
    /\ LET a == applyState(auth, [loading |-> TRUE, error |-> Null])
       IN  \E fails \in BOOLEAN :
              auth' = IF fails
                      THEN [a EXCEPT !.pc = "rejected"]
                      ELSE [ServiceSet(a, user, TokenOf(user)) EXCEPT !.pc = "resolved"]
    /\ AuthFrame

\* signOut(): runWithLoading up to `await operation()`, operation up to
\* `await this.service.signOut()`
SignOutCall ==
    /\ auth.pc = "idle"
    /\ lastCall.seq < MaxAuthCalls
    /\ lastCall' = Call("signOut", "none", auth.user, "pending")
    /\ LET a == applyState(auth, [loading |-> TRUE, error |-> Null])
       IN  \E fails \in BOOLEAN :
              auth' = IF fails
                      THEN [a EXCEPT !.pc = "rejected"]
                      ELSE [ServiceSet(a, Null, Null) EXCEPT !.pc = "resolved"]
    /\ AuthFrame

\* the rest of runWithLoading, and of signOut's operation
AuthReturn ==
    /\ auth.pc # "idle"
    /\ IF auth.pc = "rejected"
       THEN /\ auth' = [applyState(auth, [loading |-> FALSE, error |-> "auth/error"])
                           EXCEPT !.pc = "idle"]
            /\ lastCall' = [lastCall EXCEPT !.result = "error"]
       ELSE /\ auth' =
                 [applyState(IF lastCall.op = "signOut"
                             THEN applyState(auth, [user |-> Null, token |-> Null])
                             ELSE auth,
                             [loading |-> FALSE])
                     EXCEPT !.pc = "idle"]
            /\ lastCall' = [lastCall EXCEPT !.result = "ok"]
    /\ AuthFrame

\* the service reports another auth state by itself (emitAuthState)
ServiceAuthChange(user) ==
    /\ lastCall.seq < MaxAuthCalls
    /\ auth.serviceUser # user
    /\ auth' = ServiceSet(auth, user, IF user = Null THEN Null ELSE TokenOf(user))
    /\ UNCHANGED lastCall
    /\ AuthFrame

InitAuth ==
    /\ InitBinding(0, 0, 0, 0, SettledRestore)
    /\ notebooks = NoEntries
    /\ storage = NoStorage
    /\ auth = NewAuthManager
    /\ NoPeers

NextAuth ==
    \/ Initialize
    \/ \E u \in AuthUsers : SignInCall(u)
    \/ SignOutCall
    \/ AuthReturn
    \/ \E u \in AuthUsers \cup {Null} : ServiceAuthChange(u)

SpecAuth ==
    InitAuth /\ [][NextAuth]_vars

\* C32: when a signOut() called in a signed-in state resolves, the state has no user
\* and no token, is not loading, and isAuthenticated() answers false
C32_SignOutClears ==
    [][(/\ lastCall.op = "signOut"
        /\ lastCall.arg # Null
        /\ lastCall.result = "pending"
        /\ lastCall'.result = "ok")
          => /\ auth'.user = Null
             /\ auth'.token = Null
             /\ ~auth'.loading
             /\ ~isAuthenticated(auth')]_vars

\* a replayed save is issued on this step
ReplayStep ==
    /\ rst'.pc = "awaitReplay"
    /\ (rst.pc # "awaitReplay" \/ rst'.idx # rst.idx)

\* the restore has returned a result
RestoreSettled ==
    rst.pc = "done" /\ rst.source # "none"

\* C33: the restore replays the pending snapshots it drained, in queue order, each
\* accepted only over the version just below its own and stored without the pending
\* flag; a replay that fails offline puts that snapshot back at the end of the queue
\* as it was and ends the replay; so when the restore has returned, every drained
\* snapshot was attempted, or the last one attempted had failed offline
C33_ReplayInOrder ==
    /\ [][ReplayStep =>
             LET p == rst.drained[rst'.idx]
             IN  /\ rst'.idx = rst.idx + 1
                 /\ rst.idx > 0 => rst.res # "offline"
                 /\ rst'.res = "ok" =>
                       /\ remote.version = p.version - 1
                       /\ remote' = [p EXCEPT !.pending = FALSE]
                 /\ rst'.res # "ok" => remote' = remote]_vars
    /\ [][(rst.pc = "awaitReplay" /\ rst.res = "offline" /\ rst' # rst)
             => /\ pending' = Append(pending, rst.drained[rst.idx])
                /\ rst'.pc = "awaitRequeue"]_vars
    /\ [](RestoreSettled =>
             \/ rst.idx = Len(rst.drained)
             \/ rst.idx > 0 /\ rst.res = "offline")

(***************************************************************************)
(* Replay against a store that already holds the replayed snapshot: a save *)
(* that the store committed while its acknowledgement was lost is reported *)
(* as an OfflineError (FirebaseFirestoreClient.translateError maps         *)
(* 'unavailable' and 'aborted'), so persistInternal queued the snapshot.   *)
(***************************************************************************)
MaxQueued == 2

ReplayContents == {1, 2, 3}

\* the version the binding tracked while its saves were queued
QueuedOver == 1

\* a snapshot captured at `clock` by a binding that tracks version `tracked`,
\* the first cell holding `content`, as persistInternal queues it
QueuedSnapshot(content, clock, tracked) ==
    [cells |-> [i \in 1..Len(CellIds) |->
                  [id |-> CellIds[i], content |-> IF i = 1 THEN content ELSE 0,
                   lastModified |-> clock]],
     transcripts |-> <<>>, mcqAnswers |-> NoAnswer,
     version |-> tracked + 1, updatedAt |-> clock, pending |-> TRUE]

\* {...snapshot, pending: undefined} as the store keeps it
Unflagged(snapshot) ==
    [snapshot EXCEPT !.pending = FALSE]

\* the queues one offline period leaves: the tracked version does not move while
\* the saves fail, entry i was captured at clock i + 1
QueuedQueues ==
    UNION {{[i \in 1..n |-> QueuedSnapshot(c[i], i + 1, QueuedOver)] :
              c \in [1..n -> ReplayContents]} : n \in 1..MaxQueued}

\* what the store holds when the notebook is opened again: the snapshot saved before
\* the offline period, one of the queued snapshots (committed, acknowledgement lost),
\* or nothing
StoredBefore(queue) ==
    {NoSnap, Unflagged(QueuedSnapshot(0, 1, QueuedOver - 1))}
        \cup {Unflagged(queue[i]) : i \in 1..Len(queue)}

InitReplay ==
    /\ now = MaxQueued + 2
    /\ doc = InitialDoc
    /\ transcripts = <<>>
    /\ mcqAnswers = NoAnswer
    /\ version = 0
    /\ lastSnapshot = NoSnap
    /\ pendingPersist = 0
    /\ reqs = <<>>
    /\ timer = FALSE
    /\ throttler = [active |-> 0, queued |-> FALSE]
    /\ remoteSession = NoSession
    /\ cacheSession = NoSession
    /\ budget = [calls |-> 0, edits |-> 0, external |-> 0, reopen |-> 0]
    /\ synced = <<>>
    /\ superseded = {}
    /\ disposed = FALSE
    /\ registry = NoBindings
    /\ lastCall = NoCall
    /\ constructed = 0
    /\ EmptyCacheStore
    /\ \E queue \in QueuedQueues :
          /\ rst = NewRestore(queue)
          /\ pending = consumePendingSnapshots(queue).left
          /\ cache = Unflagged(queue[Len(queue)])
          /\ remote \in StoredBefore(queue)

NextReplay ==
    \/ RestoreStep
    \/ ReplayDone
    \/ AfterRequeue

SpecReplay ==
    InitReplay /\ [][NextReplay]_vars /\ WF_vars(NextReplay)

\* the replay just answered was rejected by a store that holds the replayed snapshot
StaleReplay ==
    /\ rst.pc = "awaitReplay"
    /\ rst.res = "conflict"
    /\ remote = Unflagged(rst.drained[rst.idx])

\* C34: a replay of a pending snapshot against a store that already holds that same
\* snapshot is rejected (as a conflict, unless the store is unreachable) and leaves
\* the stored snapshot as it was, and the restore goes on to return a result
C34_ReplayIdempotent ==
    /\ [][(ReplayStep /\ remote = Unflagged(rst.drained[rst'.idx]))
             => /\ remote' = remote
                /\ rst'.res \in {"conflict", "offline"}
                /\ rst'.accepted = rst.accepted]_vars
    /\ (StaleReplay ~> RestoreSettled)

\* the restore returned after every queued snapshot was replayed and rejected, the
\* store still holding the first of them
C34_Witness ==
    /\ RestoreSettled
    /\ rst.idx = Len(rst.drained)
    /\ rst.res = "conflict"
    /\ rst.accepted = {}
    /\ remote = Unflagged(rst.drained[1])
    /\ rst.source = "remote"

(***************************************************************************)
(* Several bindings of one EduStorageService: they share its cache (one    *)
(* pending map for every user and document) and its remote store.          *)
(***************************************************************************)
MaxPeerSaves == 1

MaxPeerOpens == 2

\* the context (userId, notebookId) of each binding
PeerContexts ==
    [p1 |-> [userId |-> "u", notebookId |-> "a"],
     p2 |-> [userId |-> "u", notebookId |-> "b"],
     p3 |-> [userId |-> "v", notebookId |-> "a"]]

Peers ==
    DOMAIN PeerContexts

\* the key of a binding in the cache and in the store
PeerKey(p) ==
    CacheKey(PeerContexts[p].userId, PeerContexts[p].notebookId)

NoPeerSnapshot ==
    [userId |-> "none", notebookId |-> "none", version |-> -1, updatedAt |-> -1,
     pending |-> FALSE]

ClosedPeer ==
    [pc |-> "closed", drained |-> <<>>, idx |-> 0, broke |-> FALSE,
     seen |-> NoPeerSnapshot, cached |-> NoPeerSnapshot, version |-> 0,
     saves |-> MaxPeerSaves, opens |-> MaxPeerOpens]

\* String.prototype.startsWith
startsWith(text, prefix) ==
    /\ Len(text) >= Len(prefix)
    /\ SubSeq(text, 1, Len(prefix)) = prefix

\* storePendingSnapshot on the pending map, kept as the sequence of its [key, list]
\* pairs in insertion order
storePendingSnapshotAt(map, userId, notebookId, entry) ==
    LET key == CacheKey(userId, notebookId)
    IN  IF \E i \in 1..Len(map) : map[i].key = key
        THEN [i \in 1..Len(map) |->
                IF map[i].key = key THEN [map[i] EXCEPT !.list = Append(@, entry)]
                                    ELSE map[i]]
        ELSE Append(map, [key |-> key, list |-> <<entry>>])

\* the lists under the keys that start with prefix, in the order of the map
RECURSIVE ListsUnder(_, _)
ListsUnder(map, prefix) ==
    IF map = <<>>
    THEN <<>>
    ELSE (IF startsWith(Head(map).key, prefix) THEN Head(map).list ELSE <<>>)
            \o ListsUnder(Tail(map), prefix)

\* a consume that returns the entries and leaves them in the map
consumePendingSnapshotsOf_Keeps(map, userId) ==
    [result |-> ListsUnder(map, userId \o "::"), left |-> map]

\* consumePendingSnapshots(userId) on the pending map: every key with the prefix
\* `${userId}::` is returned and deleted in the same synchronous run
consumePendingSnapshotsOf(map, userId) ==
    [result |-> ListsUnder(map, userId \o "::"),
     left |-> SelectSeq(map, LAMBDA pair : ~startsWith(pair.key, userId \o "::"))]

\* every entry of a pending map, with the key it is stored under
StoredEntries(map) ==
    {[key |-> map[i].key, entry |-> map[i].list[j]] :
        <<i, j>> \in {ij \in (1..Len(map)) \X (1..(MaxPeerSaves + 1) * 3) :
                        ij[2] <= Len(map[ij[1]].list)}}

\* the identity given to the next entry stored in the pending map
NextEntry ==
    Cardinality({e \in effects : e.op = "queueInsert"}) + 1

Effect(p, op, key, id) ==
    [by |-> p, op |-> op, key |-> key, id |-> id, call |-> peers[p].opens]

PeerFrame ==
    UNCHANGED <<doc, transcripts, mcqAnswers, version, lastSnapshot,
                pendingPersist, reqs, timer, throttler, rst, remote, remoteSession,
                cache, cacheSession, pending, budget, synced, superseded,
                serviceVars, storage, auth>>

\* new NotebookBinding(...): performRestore runs up to its first await, which is
\* after the body of cache.consumePendingSnapshots(userId) has run
PeerOpen(p) ==
    LET consumed == consumePendingSnapshotsOf(pendingMap, PeerContexts[p].userId)
    IN  /\ peers[p].pc = "closed"
        /\ peers[p].opens > 0
        /\ peers' = [peers EXCEPT ![p] = [ClosedPeer EXCEPT
                        !.pc = "awaitConsume", !.drained = consumed.result,
                        !.saves = peers[p].saves, !.opens = peers[p].opens - 1]]
        /\ pendingMap' = consumed.left
        /\ effects' = effects \cup
              {Effect(p, "queueRemove", s.key, s.entry.id) :
                 s \in {t \in StoredEntries(pendingMap) : t.entry \in Entries(consumed.result)}}
        /\ UNCHANGED <<now, remoteMap, notebooks>>
        /\ PeerFrame

\* cache.readNotebook and firestore.getNotebook of the restore (an OfflineError
\* leaves remote undefined)
PeerRead(p) ==
    /\ peers[p].pc = "awaitConsume"
    /\ \E r \in CallResults :
          peers' = [peers EXCEPT ![p].pc = "awaitRemote",
                       ![p].cached = IF PeerKey(p) \in DOMAIN notebooks
                                     THEN notebooks[PeerKey(p)] ELSE NoPeerSnapshot,
                       ![p].seen = IF r = "ok" /\ PeerKey(p) \in DOMAIN remoteMap
                                   THEN remoteMap[PeerKey(p)] ELSE NoPeerSnapshot]
    /\ UNCHANGED <<now, pendingMap, remoteMap, notebooks, effects>>
    /\ PeerFrame

\* the replay loop has snapshots left to attempt
Replaying(peer) ==
    /\ peer.pc = "awaitRemote"
    /\ Len(peer.drained) > 0
    /\ Exists(peer.seen)
    /\ ~peer.broke
    /\ peer.idx < Len(peer.drained)

\* InMemoryFirestoreClient.saveNotebook on the store of every document
SaveResultAt(map, snapshot, conditional, expectedVersion) ==
    LET key == CacheKey(snapshot.userId, snapshot.notebookId)
    IN  IF key \in DOMAIN map /\ conditional /\ map[key].version # expectedVersion
        THEN "conflict"
        ELSE "ok"

\* one turn of the replay loop: the save of the next drained snapshot and, after an
\* OfflineError, storePendingSnapshot(context.userId, context.notebookId, pending)
PeerReplay(p) ==
    LET entry == peers[p].drained[peers[p].idx + 1]
        s == entry.snapshot
        key == CacheKey(s.userId, s.notebookId)
    IN  /\ Replaying(peers[p])
        /\ \E r \in {"offline", SaveResultAt(remoteMap, s, TRUE, s.version - 1)} :
              /\ remoteMap' = IF r = "ok" THEN MapPut(remoteMap, key, Unflagged(s))
                                          ELSE remoteMap
              /\ pendingMap' =
                    IF r = "offline"
                    THEN storePendingSnapshotAt(pendingMap, PeerContexts[p].userId,
                            PeerContexts[p].notebookId, [entry EXCEPT !.id = NextEntry])
                    ELSE pendingMap
              /\ peers' = [peers EXCEPT ![p].idx = @ + 1, ![p].broke = (r = "offline")]
              /\ effects' = effects \cup {Effect(p, "remoteSave", key, entry.id)} \cup
                    (IF r = "offline"
                     THEN {Effect(p, "queueInsert", PeerKey(p), NextEntry)} ELSE {})
        /\ UNCHANGED <<now, notebooks>>
        /\ PeerFrame

\* chooseSnapshot and applySnapshot at the end of performRestore
PeerSettle(p) ==
    LET chosen == chooseSnapshot(peers[p].seen, peers[p].cached)
    IN  /\ peers[p].pc = "awaitRemote"
        /\ ~Replaying(peers[p])
        /\ peers' = [peers EXCEPT ![p].pc = "done",
                        ![p].version = IF Exists(chosen) THEN chosen.version ELSE @]
        /\ UNCHANGED <<now, pendingMap, remoteMap, notebooks, effects>>
        /\ PeerFrame

\* persistInternal of a binding whose restore has settled, with handleConflict: the
\* cache write, the save, and the queue insertion after an OfflineError
PeerSave(p) ==
    LET snapshot == [userId |-> PeerContexts[p].userId,
                     notebookId |-> PeerContexts[p].notebookId,
                     version |-> peers[p].version + 1, updatedAt |-> now,
                     pending |-> FALSE]
        merged == [snapshot EXCEPT
                     !.version = Max(snapshot.version, remoteMap[PeerKey(p)].version) + 1]
        queued(s) == storePendingSnapshotAt(pendingMap, s.userId, s.notebookId,
                        [id |-> NextEntry, snapshot |-> [s EXCEPT !.pending = TRUE]])
    IN  /\ peers[p].pc = "done"
        /\ peers[p].saves > 0
        /\ now' = now + 1
        /\ \E r \in {"offline", SaveResultAt(remoteMap, snapshot, TRUE, peers[p].version)},
              retry \in CallResults :
              /\ r # "conflict" => retry = "ok"
              /\ notebooks' = MapPut(notebooks, PeerKey(p),
                                     IF r = "conflict" THEN merged ELSE snapshot)
              /\ remoteMap' = CASE r = "ok" -> MapPut(remoteMap, PeerKey(p), snapshot)
                                [] r = "conflict" /\ retry = "ok" ->
                                      MapPut(remoteMap, PeerKey(p), merged)
                                [] OTHER -> remoteMap
              /\ pendingMap' = CASE r = "offline" -> queued(snapshot)
                                 [] r = "conflict" /\ retry = "offline" -> queued(merged)
                                 [] OTHER -> pendingMap
              /\ peers' = [peers EXCEPT ![p].saves = @ - 1,
                              ![p].version = CASE r = "ok" -> snapshot.version
                                               [] r = "conflict" -> merged.version
                                               [] OTHER -> @]
              /\ effects' = effects
                    \cup {Effect(p, "cacheWrite", PeerKey(p), 0),
                          Effect(p, "remoteSave", PeerKey(p), 0)}
                    \cup (IF r = "offline" \/ (r = "conflict" /\ retry = "offline")
                          THEN {Effect(p, "queueInsert", PeerKey(p), NextEntry)} ELSE {})
        /\ PeerFrame

\* binding.dispose() of a settled binding: the service forgets it, and the document
\* can be registered again
PeerClose(p) ==
    /\ peers[p].pc = "done"
    /\ peers[p].opens > 0
    /\ peers' = [peers EXCEPT ![p].pc = "closed"]
    /\ UNCHANGED <<now, pendingMap, remoteMap, notebooks, effects>>
    /\ PeerFrame

InitPeers ==
    /\ InitBinding(0, 0, 0, 0, SettledRestore)
    /\ notebooks = NoEntries
    /\ storage = NoStorage
    /\ auth = NewAuthManager
    /\ pendingMap = <<>>
    /\ remoteMap = NoEntries
    /\ peers = [p \in Peers |-> ClosedPeer]
    /\ effects = {}

NextPeers ==
    \/ \E p \in Peers : PeerOpen(p)
    \/ \E p \in Peers : PeerRead(p)
    \/ \E p \in Peers : PeerReplay(p)
    \/ \E p \in Peers : PeerSettle(p)
    \/ \E p \in Peers : PeerSave(p)
    \/ \E p \in Peers : PeerClose(p)

SpecPeers ==
    InitPeers /\ [][NextPeers]_vars

\* the entries of a pending map that were queued for `userId`
EntriesFor(map, userId) ==
    {s.entry : s \in {t \in StoredEntries(map) : t.entry.snapshot.userId = userId}}

\* C35: one consumePendingSnapshots(userId) call returns every entry queued for that
\* user, leaves none of them in the queue and leaves the entries of other users in
\* place; no stored entry is returned by two consume calls; no stored entry is
\* replayed by two bindings
C35_ConsumeAtomic ==
    /\ [][\A p \in Peers :
            (peers[p].pc = "closed" /\ peers'[p].pc = "awaitConsume") =>
               LET u == PeerContexts[p].userId
               IN  /\ Entries(peers'[p].drained) = EntriesFor(pendingMap, u)
                   /\ Len(peers'[p].drained) = Cardinality(EntriesFor(pendingMap, u))
                   /\ EntriesFor(pendingMap', u) = {}
                   /\ \A o \in {"u", "v"} \ {u} :
                         EntriesFor(pendingMap', o) = EntriesFor(pendingMap, o)]_vars
    /\ [](\A e1, e2 \in effects :
             (e1.op = "queueRemove" /\ e2.op = "queueRemove" /\ e1.id = e2.id)
                => (e1.by = e2.by /\ e1.call = e2.call))
    /\ [](\A e1, e2 \in effects :
             (e1.op = "remoteSave" /\ e2.op = "remoteSave" /\ e1.id # 0 /\ e1.id = e2.id)
                => e1.by = e2.by)

\* two bindings of one user have each drained an entry, an entry was replayed, and a
\* binding constructed for the last time has settled after a replay
C35_Witness ==
    /\ \E e1, e2 \in effects :
          /\ e1.op = "queueRemove" /\ e2.op = "queueRemove"
          /\ e1.by = "p1" /\ e2.by = "p2"
    /\ \E e \in effects : e.op = "remoteSave" /\ e.id # 0
    /\ \E p \in Peers : peers[p].pc = "done" /\ peers[p].opens = 0 /\ peers[p].idx > 0

\* C36: every cache write, pending-queue insertion, pending-queue removal and remote
\* save a binding performs is made under the key of its own user and document
C36_OwnKeysOnly ==
    \A e \in effects : e.key = PeerKey(e.by)

\* handleConflict of request w merges on this step
MergeStep(w) ==
    reqs[w].pc = "awaitFetch" /\ reqs'[w].pc = "awaitCacheMerged"

\* the retry of request w reaches the store on this step, the store still holding the
\* snapshot the conflict fetch returned
RetryStep(w) ==
    /\ reqs[w].pc = "awaitCacheMerged"
    /\ reqs'[w].pc = "awaitRetry"
    /\ reqs'[w].res # "offline"
    /\ remote = reqs[w].fetched

\* C37: the snapshot merged on a conflict has version max(local, remote) + 1 and
\* updatedAt = the time of the merge; a retry that reaches a store nobody wrote since
\* the conflict fetch is accepted, not rejected as a second conflict, and the version
\* the binding tracks is then the version the store holds
C37_MergedRetryAccepted ==
    /\ [][\A w \in 1..Len(reqs) : MergeStep(w) =>
             /\ reqs'[w].merged.version =
                   Max(reqs[w].snap.version, reqs[w].fetched.version) + 1
             /\ reqs'[w].merged.updatedAt = now]_vars
    /\ [][\A w \in 1..Len(reqs) : RetryStep(w) =>
             /\ reqs'[w].res = "ok"
             /\ remote' = reqs[w].merged
             /\ version' = remote'.version]_vars

\* the restore has returned after every drained snapshot was replayed and none of its
\* calls failed offline
ReplayedAll ==
    /\ RestoreSettled
    /\ Exists(rst.seen)
    /\ rst.idx = Len(rst.drained)
    /\ rst.res # "offline"

\* C38: when the restore has replayed several snapshots queued during one offline
\* period, the store being reachable, the store holds the content of the snapshot
\* queued last
C38_LatestPendingWins ==
    (ReplayedAll /\ Len(rst.drained) > 1)
        => SameContent(remote, rst.drained[Len(rst.drained)])

\* the binding is idle after this step: the restore has returned, every write has settled
QuietNext ==
    /\ rst'.pc = "done"
    /\ \A w \in 1..Len(reqs') : reqs'[w].pc = "done"

\* the last save of request w has failed offline and its persistInternal goes on
\* (the snapshot is queued, or the error leaves handleConflict)
EndsOffline(w) ==
    /\ reqs[w].pc \in {"awaitSave", "awaitRetry"}
    /\ reqs[w].res = "offline"
    /\ reqs'[w].pc \in {"awaitPost", "done"}

\* C39: when a write settles and leaves the binding idle, its last save accepted and
\* the store still holding what it stored, the version the binding tracks is the version
\* the store holds; when a save has ended offline the binding tracks the version it
\* tracked when the snapshot of that write was captured
C39_TrackerConsistent ==
    /\ [][\A w \in 1..Len(reqs) :
             (/\ reqs[w].pc = "awaitPost"
              /\ reqs'[w].pc = "done"
              /\ reqs[w].res = "ok"
              /\ remote \in {reqs[w].snap, reqs[w].merged}
              /\ QuietNext)
                => version' = remote'.version]_vars
    /\ [][\A w \in 1..Len(reqs) :
             EndsOffline(w) => version' = reqs[w].snap.version - 1]_vars

\* C40: the snapshot in the remote store and the cached notebook never carry
\* pending = true, nor does the snapshot a restore read from either; every entry of
\* the pending queue, and every entry a restore drained from it, carries pending = true
C40_PendingFlagOnQueueOnly ==
    /\ ~remote.pending
    /\ ~cache.pending
    /\ ~rst.seen.pending
    /\ ~rst.cached.pending
    /\ ~lastSnapshot.pending
    /\ \A i \in 1..Len(pending) : pending[i].pending
    /\ \A i \in 1..Len(rst.drained) : rst.drained[i].pending

\* a snapshot drained from the queue, where it carried the flag, was replayed and
\* accepted: the store holds its content, and the cache holds a snapshot
C40_Witness ==
    /\ rst.accepted # {}
    /\ \E p \in rst.accepted : p.pending /\ SameContent(remote, p)
    /\ Exists(cache)

=============================================================================
